---- MODULE Spec2Model ----
(***************************************************************************)
(* The unified MCAP recording writer of pulse (package foxglove), its      *)
(* schema registry, and the log and metric adapters that share it.         *)
(*                                                                         *)
(* Producer goroutines are the threads of the model.  Every method is cut  *)
(* at its lock acquisition and at each call into the mcap codec, so that   *)
(* the interleavings the Go scheduler allows are the interleavings of the  *)
(* model.  The mcap codec is an external library: a call into it either    *)
(* accepts the record (it is appended to stream) or returns an error.      *)
(***************************************************************************)
EXTENDS Integers, Sequences, FiniteSets, TLC

VARIABLES
    unified,        \* what NewUnifiedMcapWriter returned: "nil" (not yet), "ok", "err"
    file,           \* the os.File handle: "none", "open", "closed"
    filePath,       \* UnifiedMcapWriter.filePath
    closeCalls,     \* how often the codec's Close and the file's Close were called
    stream,         \* the records the codec accepted, in order
    mu,             \* holder of UnifiedMcapWriter.mu, NoThread when free
    closed,         \* UnifiedMcapWriter.closed
    registry,       \* SchemaRegistry.schemas: name -> definition
    schemaIDs,      \* UnifiedMcapWriter.schemaIDs: name -> id
    nextSchemaID,   \* UnifiedMcapWriter.nextSchemaID (uint16)
    channels,       \* UnifiedMcapWriter.channels: topic -> id
    nextChannel,    \* UnifiedMcapWriter.nextChannel (uint16)
    logWriter,      \* the LogMcapWriter: whether it exists, and its channelID
    metricWriter,   \* whether the MetricMcapWriter exists
    mchannels,      \* MetricMcapWriter.channels: metric name -> id
    mmu,            \* holder of MetricMcapWriter.mu
    pc,             \* per thread: the statement it is at
    frame,          \* per thread: arguments and locals of the running call
    hist,           \* the completed calls on the writer, in commit order
    ncalls,         \* calls started so far
    faults          \* codec and file-system errors injected so far

vars == <<unified, file, filePath, closeCalls, stream, mu, closed, registry, schemaIDs, nextSchemaID,
          channels, nextChannel, logWriter, metricWriter, mchannels, mmu,
          pc, frame, hist, ncalls, faults>>

fileVars == <<file, filePath, closeCalls>>
schemaVars == <<schemaIDs, nextSchemaID>>
channelVars == <<channels, nextChannel>>
adapterVars == <<logWriter, metricWriter, mchannels, mmu>>

----------------------------------------------------------------------------
(* Bounds of the model. *)

NThreads == 2
MaxCalls == 3
MaxFaults == 1
MaxNameLen == 3

Threads == 1..NThreads
NoThread == 0

----------------------------------------------------------------------------
(* Values. Strings the code computes on are sequences of characters;       *)
(* schema names and definitions are only compared, and stay atoms.         *)

Uint16 == 65536

ServiceName == <<"s", "v", "c">>
ServiceVersion == <<"1">>
ServiceEnv == <<"d", "e", "v">>
ServiceDescription == <<"x">>

LogSchemaName == "foxglove.Log"
MetricSchemaName == "mahcanirobotics.metric"
PlotSchemaName == "foxglove.Plot"
CustomSchemaName == "acme.Custom"

\* the names callers pass: one bound at construction, one in the registry
\* only, one in neither until AddCustomSchema registers it
SchemaNames == {LogSchemaName, PlotSchemaName, CustomSchemaName}
CustomDefs == {"customSchemaA", "customSchemaB"}

EmptyMap == [x \in {} |-> 0]

\* an assignment that replaces the map by one holding the new entry only
MapSetOnly(m, k, v) == [x \in {k} |-> v]

\* m[k] = v on a Go map
MapSet(m, k, v) == [x \in (DOMAIN m) \cup {k} |-> IF x = k THEN v ELSE m[x]]

\* metadata maps are sets of <<key, value>> pairs
MetaPut(m, k, v) == {p \in m : p[1] # k} \cup {<<k, v>>}

Paths == {"", "out/svc.mcap"}

\* strings.Replace(s, old, new, 1): the first occurrence only
ReplaceFirst(s, old, new) ==
    [i \in 1..Len(s) |->
        IF s[i] = old /\ (\A j \in 1..(i - 1) : s[j] # old) THEN new ELSE s[i]]

\* strings.ReplaceAll(s, old, new) for a one-character old
ReplaceAll(s, old, new) ==
    [i \in 1..Len(s) |-> IF s[i] = old THEN new ELSE s[i]]

\* fmt.Sprintf("/logs/%s", service)
LogTopic(service) == <<"/", "l", "o", "g", "s", "/">> \o service

\* fmt.Sprintf("/metrics/%s/%s", service, strings.ReplaceAll(name, ".", "/"))
MetricTopic(service, metricName) ==
    <<"/", "m", "e", "t", "r", "i", "c", "s", "/">> \o service \o <<"/">>
        \o ReplaceAll(metricName, ".", "/")

CpuLoad == <<"c", "p", "u", ".", "l", "o", "a", "d">>
CpuSlashLoad == <<"c", "p", "u", "/", "l", "o", "a", "d">>
MetricNames == {CpuLoad, CpuSlashLoad}

\* the characters that matter to the topic derivation, and the strings over
\* them up to a length
Chars == {"a", ".", "/"}

RECURSIVE Strings(_)
Strings(n) ==
    IF n = 0 THEN {<<>>}
    ELSE LET S == Strings(n - 1)
         IN S \cup {Append(x, c) : x \in S, c \in Chars}

LlmCacheHitRate ==
    <<"l", "l", "m", ".", "c", "a", "c", "h", "e", ".", "h", "i", "t", "_",
      "r", "a", "t", "e">>

\* the service names and metric names the topics are derived from
Services == {ServiceName, <<"a", ".", "b">>, <<>>}
MetricNameInputs == Strings(MaxNameLen) \cup {LlmCacheHitRate, CpuLoad}

Topics == {<<"t">>, LogTopic(ServiceName)}
Metas == {{}, {<<"k", <<"v">>>>}}
ChannelIDs == {1, 2}

\* the channel metadata NewLogMcapWriter builds
LogMetadata ==
    {<<"service", ServiceName>>, <<"version", ServiceVersion>>,
     <<"environment", ServiceEnv>>, <<"description", ServiceDescription>>}

\* MetricMcapWriter.metadata, built by NewMetricMcapWriter
MetricMetadata ==
    {<<"service_name", ServiceName>>, <<"version", ServiceVersion>>,
     <<"environment", ServiceEnv>>}

\* arguments and locals of a call, and where it returns to
NoFrame == [op |-> "", name |-> "", def |-> "", topic |-> <<>>, schema |-> "",
            meta |-> {}, chan |-> 0, id |-> 0, i |-> 0, mname |-> <<>>,
            data |-> "", path |-> "", rv |-> 0, err |-> "nil", cont |-> "idle",
            service |-> <<>>, level |-> <<>>]

\* the frame a call leaves behind: nothing at top level, its results otherwise
RetFrame(f, e, v) ==
    IF f.cont = "idle" THEN NoFrame ELSE [f EXCEPT !.err = e, !.rv = v]

\* one completed call on the writer: what it was given, the id it returned
\* or left bound, its error, and whether it wrote a record
Done(op, t, f, id, e, new) ==
    [op |-> op, caller |-> f.op, name |-> f.name, topic |-> f.topic,
     schema |-> f.schema, meta |-> f.meta, id |-> id, err |-> e, new |-> new]

----------------------------------------------------------------------------
(* SchemaRegistry *)

NewSchemaRegistry ==
    [n \in {LogSchemaName, MetricSchemaName, PlotSchemaName} |->
        CASE n = LogSchemaName -> "foxgloveLogSchema"
          [] n = MetricSchemaName -> "shokkiMetricSchema"
          [] OTHER -> "foxglovePlotSchema"]

\* a Register that keeps the definition a name already has
RegisterKeepFirst(r, name, schema) ==
    IF name \in DOMAIN r THEN r ELSE MapSet(r, name, schema)

\* r.schemas[name] = schema
Register(r, name, schema) == MapSet(r, name, schema)

\* a Get whose exists result is always true
GetAlways(r, name) ==
    [schema |-> IF name \in DOMAIN r THEN r[name] ELSE "", exists |-> TRUE]

\* Get returns (schema, exists); the zero value "" when absent
Get(r, name) ==
    IF name \in DOMAIN r THEN [schema |-> r[name], exists |-> TRUE]
    ELSE [schema |-> "", exists |-> FALSE]

List(r) == DOMAIN r

----------------------------------------------------------------------------
(* Records of the container *)

\* mcap.Header{Profile, Library}
HeaderRec(profile) ==
    [kind |-> "header", id |-> 0, ref |-> 0, name |-> "", topic |-> profile,
     data |-> "github.com/machanirobotics/pulse/go/", meta |-> {}, seq |-> 0,
     mname |-> <<>>]

\* mcap.Schema{ID, Name, Encoding: "jsonschema", Data}
SchemaRec(id, name, data) ==
    [kind |-> "schema", id |-> id, ref |-> 0, name |-> name, topic |-> <<>>,
     data |-> data, meta |-> {}, seq |-> 0, mname |-> <<>>]

\* a channel record built with ID and SchemaID taken from each other
ChannelRecSwapped(id, schemaID, topic, metadata) ==
    [kind |-> "channel", id |-> schemaID, ref |-> id, name |-> "json",
     topic |-> topic, data |-> "", meta |-> metadata, seq |-> 0, mname |-> <<>>]

\* a channel record built without its SchemaID field
ChannelRecNoSchema(id, schemaID, topic, metadata) ==
    [kind |-> "channel", id |-> id, ref |-> 0, name |-> "json",
     topic |-> topic, data |-> "", meta |-> metadata, seq |-> 0, mname |-> <<>>]

\* mcap.Channel{ID, SchemaID, Topic, MessageEncoding: "json", Metadata}
ChannelRec(id, schemaID, topic, metadata) ==
    [kind |-> "channel", id |-> id, ref |-> schemaID, name |-> "json",
     topic |-> topic, data |-> "", meta |-> metadata, seq |-> 0, mname |-> <<>>]

\* a data record built without its ChannelID field
MessageRecNoChannel(channelID, sequence, data, mname) ==
    [kind |-> "message", id |-> 0, ref |-> 0, name |-> "",
     topic |-> <<>>, data |-> data, meta |-> {}, seq |-> sequence,
     mname |-> mname]

\* mcap.Message{ChannelID, Sequence, LogTime, PublishTime, Data}; data names
\* the payload's kind and mname the metric a metric payload carries
MessageRec(channelID, sequence, data, mname) ==
    [kind |-> "message", id |-> 0, ref |-> channelID, name |-> "",
     topic |-> <<>>, data |-> data, meta |-> {}, seq |-> sequence,
     mname |-> mname]

\* what the codec's Close leaves at the end of the stream
FooterRec ==
    [kind |-> "footer", id |-> 0, ref |-> 0, name |-> "", topic |-> <<>>,
     data |-> "", meta |-> {}, seq |-> 0, mname |-> <<>>]

\* the outcomes of one call into the codec or the file system: it can fail
\* while the failure budget lasts
Outcomes == IF faults < MaxFaults THEN {TRUE, FALSE} ELSE {TRUE}

Fault(ok) == IF ok THEN faults ELSE faults + 1

----------------------------------------------------------------------------
Init ==
    /\ unified = "nil"
    /\ file = "none"
    /\ filePath = ""
    /\ closeCalls = [codec |-> 0, file |-> 0]
    /\ stream = <<>>
    /\ mu = NoThread
    /\ closed = FALSE
    /\ registry = EmptyMap
    /\ schemaIDs = EmptyMap
    /\ nextSchemaID = 0
    /\ channels = EmptyMap
    /\ nextChannel = 0
    /\ logWriter = [exists |-> FALSE, channelID |-> 0]
    /\ metricWriter = FALSE
    /\ mchannels = EmptyMap
    /\ mmu = NoThread
    /\ pc = [t \in Threads |-> "idle"]
    /\ frame = [t \in Threads |-> NoFrame]
    /\ hist = <<>>
    /\ ncalls = 0
    /\ faults = 0

----------------------------------------------------------------------------
(* The pieces of the writer's methods *)

\* a Lock that does not wait for the holder
LockNoWait(t) == mu' = t

\* u.mu.Lock(): blocks until the mutex is free
Lock(t) ==
    /\ mu = NoThread
    /\ mu' = t

\* an adapter lock that does not wait for the holder
AdapterLockNoWait(t) == mmu' = t

\* m.mu.Lock() of the metric adapter
AdapterLock(t) ==
    /\ mmu = NoThread
    /\ mmu' = t

\* RegisterSchema without its already-registered check
AlreadyRegisteredNever(name) == FALSE

\* _, exists := u.schemaIDs[schemaName] in RegisterSchema
AlreadyRegistered(name) == name \in DOMAIN schemaIDs

\* CreateChannel without its existing-channel check
LookupChannelNever(topic) == [id |-> 0, exists |-> FALSE]

\* channelID, exists := u.channels[topic] in CreateChannel
LookupChannel(topic) ==
    IF topic \in DOMAIN channels
    THEN [id |-> channels[topic], exists |-> TRUE]
    ELSE [id |-> 0, exists |-> FALSE]

\* CreateChannel with the exists flag of the schema lookup ignored
LookupSchemaIDUnchecked(name) ==
    [id |-> IF name \in DOMAIN schemaIDs THEN schemaIDs[name] ELSE 0,
     exists |-> TRUE]

\* schemaID, exists := u.schemaIDs[schemaName] in CreateChannel
LookupSchemaID(name) ==
    IF name \in DOMAIN schemaIDs
    THEN [id |-> schemaIDs[name], exists |-> TRUE]
    ELSE [id |-> 0, exists |-> FALSE]

\* a counter that skips an id
Inc16Skip(n) == (n + 2) % Uint16

\* ++ on a uint16 counter
Inc16(n) == (n + 1) % Uint16

----------------------------------------------------------------------------
(* NewUnifiedMcapWriter *)

\* a constructor that registers the log schema only
BuiltInSchemasLogOnly == <<LogSchemaName>>

\* a constructor that registers every schema the registry is seeded with
BuiltInSchemasAll == <<LogSchemaName, MetricSchemaName, PlotSchemaName>>

\* the schemas registerBuiltInSchemas registers, in order
BuiltInSchemas == <<LogSchemaName, MetricSchemaName>>

\* where the constructor can fail before the struct exists
FailPoints ==
    {"none"} \cup (IF faults < MaxFaults
                   THEN {"mkdir", "create", "codec", "header"} ELSE {})

CallNewUnifiedMcapWriter(t, path) ==
    /\ unified = "nil"
    /\ pc[t] = "idle"
    /\ unified' = "new"
    /\ pc' = [pc EXCEPT ![t] = "new_open"]
    /\ frame' = [frame EXCEPT ![t] = [NoFrame EXCEPT !.op = "New", !.path = path]]
    /\ UNCHANGED <<fileVars, stream, mu, closed, registry, schemaVars,
                   channelVars, adapterVars, hist, ncalls, faults>>

\* path check, MkdirAll, os.Create, mcap.NewWriter, WriteHeader, the struct
NewOpen(t) ==
    /\ pc[t] = "new_open"
    /\ IF frame[t].path = ""
       THEN /\ unified' = "err"
            /\ pc' = [pc EXCEPT ![t] = "idle"]
            /\ frame' = [frame EXCEPT ![t] = NoFrame]
            /\ UNCHANGED <<fileVars, stream, closed, registry, schemaVars,
                           channelVars, faults>>
       ELSE \E fail \in FailPoints :
            IF fail # "none"
            THEN /\ unified' = "err"
                 /\ file' = IF fail \in {"codec", "header"} THEN "closed" ELSE "none"
                 /\ closeCalls' = IF fail \in {"codec", "header"}
                                  THEN [closeCalls EXCEPT !.file = @ + 1]
                                  ELSE closeCalls
                 /\ faults' = faults + 1
                 /\ pc' = [pc EXCEPT ![t] = "idle"]
                 /\ frame' = [frame EXCEPT ![t] = NoFrame]
                 /\ UNCHANGED <<filePath, stream, closed, registry, schemaVars,
                                channelVars>>
            ELSE /\ file' = "open"
                 /\ stream' = <<HeaderRec(ServiceName)>>
                 /\ filePath' = frame[t].path
                 /\ registry' = NewSchemaRegistry
                 /\ schemaIDs' = EmptyMap
                 /\ channels' = EmptyMap
                 /\ nextSchemaID' = 1
                 /\ nextChannel' = 1
                 /\ pc' = [pc EXCEPT ![t] = "builtin_loop"]
                 /\ frame' = [frame EXCEPT ![t].i = 1]
                 /\ UNCHANGED <<unified, closeCalls, closed, faults>>
    /\ UNCHANGED <<mu, adapterVars, hist, ncalls>>

\* registerBuiltInSchemas: the loop head, and the constructor's return
RegisterBuiltInSchemas(t) ==
    /\ pc[t] = "builtin_loop"
    /\ IF frame[t].i > Len(BuiltInSchemas)
       THEN /\ unified' = "ok"
            /\ pc' = [pc EXCEPT ![t] = "idle"]
            /\ frame' = [frame EXCEPT ![t] = NoFrame]
       ELSE /\ pc' = [pc EXCEPT ![t] = "rs_lock"]
            /\ frame' = [frame EXCEPT ![t].name = BuiltInSchemas[frame[t].i],
                                      ![t].cont = "builtin_ret"]
            /\ UNCHANGED unified
    /\ UNCHANGED <<fileVars, stream, mu, closed, registry, schemaVars,
                   channelVars, adapterVars, hist, ncalls, faults>>

\* a constructor that returns the registration error without closing the file
BuiltInRegisteredLeak(t) ==
    /\ pc[t] = "builtin_ret"
    /\ IF frame[t].err # "nil"
       THEN /\ unified' = "err"
            /\ pc' = [pc EXCEPT ![t] = "idle"]
            /\ frame' = [frame EXCEPT ![t] = NoFrame]
       ELSE /\ pc' = [pc EXCEPT ![t] = "builtin_loop"]
            /\ frame' = [frame EXCEPT ![t].i = @ + 1]
            /\ UNCHANGED unified
    /\ UNCHANGED <<fileVars, stream, mu, closed, registry, schemaVars,
                   channelVars, adapterVars, hist, ncalls, faults>>

\* registerBuiltInSchemas after one RegisterSchema: an error closes the file
BuiltInRegistered(t) ==
    /\ pc[t] = "builtin_ret"
    /\ IF frame[t].err # "nil"
       THEN /\ unified' = "err"
            /\ file' = "closed"
            /\ closeCalls' = [closeCalls EXCEPT !.file = @ + 1]
            /\ pc' = [pc EXCEPT ![t] = "idle"]
            /\ frame' = [frame EXCEPT ![t] = NoFrame]
       ELSE /\ pc' = [pc EXCEPT ![t] = "builtin_loop"]
            /\ frame' = [frame EXCEPT ![t].i = @ + 1]
            /\ UNCHANGED <<unified, file, closeCalls>>
    /\ UNCHANGED <<filePath, stream, mu, closed, registry, schemaVars,
                   channelVars, adapterVars, hist, ncalls, faults>>

----------------------------------------------------------------------------
(* UnifiedMcapWriter.RegisterSchema *)

CallRegisterSchema(t, name) ==
    /\ unified = "ok"
    /\ pc[t] = "idle"
    /\ ncalls < MaxCalls
    /\ ncalls' = ncalls + 1
    /\ Lock(t)
    /\ pc' = [pc EXCEPT ![t] = "rs_check"]
    /\ frame' = [frame EXCEPT ![t] = [NoFrame EXCEPT !.op = "RegisterSchema",
                                                     !.name = name]]
    /\ UNCHANGED <<unified, fileVars, stream, closed, registry, schemaVars,
                   channelVars, adapterVars, hist, faults>>

\* a RegisterSchema that enters its body without taking the mutex
RegisterSchemaNoLock(t) ==
    /\ pc[t] = "rs_lock"
    /\ pc' = [pc EXCEPT ![t] = "rs_check"]
    /\ UNCHANGED <<unified, fileVars, stream, mu, closed, registry, schemaVars,
                   channelVars, adapterVars, frame, hist, ncalls, faults>>

\* u.mu.Lock()
RegisterSchemaLock(t) ==
    /\ pc[t] = "rs_lock"
    /\ Lock(t)
    /\ pc' = [pc EXCEPT ![t] = "rs_check"]
    /\ UNCHANGED <<unified, fileVars, stream, closed, registry, schemaVars,
                   channelVars, adapterVars, frame, hist, ncalls, faults>>

\* the already-registered check and the registry lookup
RegisterSchemaCheck(t) ==
    /\ pc[t] = "rs_check"
    /\ LET f == frame[t]
           got == Get(registry, f.name)
       IN IF AlreadyRegistered(f.name)
          THEN /\ mu' = NoThread
               /\ hist' = Append(hist, Done("RegisterSchema", t, f,
                                            schemaIDs[f.name], "nil", FALSE))
               /\ pc' = [pc EXCEPT ![t] = f.cont]
               /\ frame' = [frame EXCEPT ![t] = RetFrame(f, "nil", 0)]
          ELSE IF ~got.exists
          THEN /\ mu' = NoThread
               /\ hist' = Append(hist, Done("RegisterSchema", t, f, 0,
                                            "not_found", FALSE))
               /\ pc' = [pc EXCEPT ![t] = f.cont]
               /\ frame' = [frame EXCEPT ![t] = RetFrame(f, "not_found", 0)]
          ELSE /\ pc' = [pc EXCEPT ![t] = "rs_write"]
               /\ frame' = [frame EXCEPT ![t].def = got.schema,
                                         ![t].id = nextSchemaID]
               /\ UNCHANGED <<mu, hist>>
    /\ UNCHANGED <<unified, fileVars, stream, closed, registry, schemaVars,
                   channelVars, adapterVars, ncalls, faults>>

\* a RegisterSchema that records the binding before the codec write, so a
\* failed write leaves the name bound
RegisterSchemaWriteBoundFirst(t) ==
    /\ pc[t] = "rs_write"
    /\ LET f == frame[t]
       IN \E ok \in Outcomes :
          IF ok
          THEN /\ stream' = Append(stream, SchemaRec(f.id, f.name, f.def))
               /\ pc' = [pc EXCEPT ![t] = "rs_bind"]
               /\ UNCHANGED <<mu, frame, hist, faults, schemaVars>>
          ELSE /\ mu' = NoThread
               /\ faults' = Fault(FALSE)
               /\ schemaIDs' = MapSet(schemaIDs, f.name, f.id)
               /\ nextSchemaID' = Inc16(nextSchemaID)
               /\ hist' = Append(hist, Done("RegisterSchema", t, f, 0,
                                            "write_failed", FALSE))
               /\ pc' = [pc EXCEPT ![t] = f.cont]
               /\ frame' = [frame EXCEPT ![t] = RetFrame(f, "write_failed", 0)]
               /\ UNCHANGED stream
    /\ UNCHANGED <<unified, fileVars, closed, registry,
                   channelVars, adapterVars, ncalls>>

\* u.writer.WriteSchema
RegisterSchemaWrite(t) ==
    /\ pc[t] = "rs_write"
    /\ LET f == frame[t]
       IN \E ok \in Outcomes :
          IF ok
          THEN /\ stream' = Append(stream, SchemaRec(f.id, f.name, f.def))
               /\ pc' = [pc EXCEPT ![t] = "rs_bind"]
               /\ UNCHANGED <<mu, frame, hist, faults>>
          ELSE /\ mu' = NoThread
               /\ faults' = Fault(FALSE)
               /\ hist' = Append(hist, Done("RegisterSchema", t, f, 0,
                                            "write_failed", FALSE))
               /\ pc' = [pc EXCEPT ![t] = f.cont]
               /\ frame' = [frame EXCEPT ![t] = RetFrame(f, "write_failed", 0)]
               /\ UNCHANGED stream
    /\ UNCHANGED <<unified, fileVars, closed, registry, schemaVars,
                   channelVars, adapterVars, ncalls>>

\* u.schemaIDs[schemaName] = schemaID; u.nextSchemaID++; return nil
RegisterSchemaBind(t) ==
    /\ pc[t] = "rs_bind"
    /\ LET f == frame[t]
       IN /\ schemaIDs' = MapSet(schemaIDs, f.name, f.id)
          /\ nextSchemaID' = Inc16(nextSchemaID)
          /\ mu' = NoThread
          /\ hist' = Append(hist, Done("RegisterSchema", t, f, f.id, "nil", TRUE))
          /\ pc' = [pc EXCEPT ![t] = f.cont]
          /\ frame' = [frame EXCEPT ![t] = RetFrame(f, "nil", 0)]
    /\ UNCHANGED <<unified, fileVars, stream, closed, registry,
                   channelVars, adapterVars, ncalls, faults>>

RegisterSchema(t) ==
    \/ RegisterSchemaLock(t)
    \/ RegisterSchemaCheck(t)
    \/ RegisterSchemaWrite(t)
    \/ RegisterSchemaBind(t)

----------------------------------------------------------------------------
(* UnifiedMcapWriter.AddCustomSchema *)

CallAddCustomSchema(t, name, schema) ==
    /\ unified = "ok"
    /\ pc[t] = "idle"
    /\ ncalls < MaxCalls
    /\ ncalls' = ncalls + 1
    /\ pc' = [pc EXCEPT ![t] = "acs_register"]
    /\ frame' = [frame EXCEPT ![t] = [NoFrame EXCEPT !.op = "AddCustomSchema",
                                                     !.name = name,
                                                     !.def = schema]]
    /\ UNCHANGED <<unified, fileVars, stream, mu, closed, registry, schemaVars,
                   channelVars, adapterVars, hist, faults>>

\* u.registry.Register(name, schema), outside the lock; then the tail call of
\* RegisterSchema
AddCustomSchemaRegister(t) ==
    /\ pc[t] = "acs_register"
    /\ registry' = Register(registry, frame[t].name, frame[t].def)
    /\ pc' = [pc EXCEPT ![t] = "rs_lock"]
    /\ UNCHANGED <<unified, fileVars, stream, mu, closed, schemaVars,
                   channelVars, adapterVars, frame, hist, ncalls, faults>>

AddCustomSchema(t) == AddCustomSchemaRegister(t)

----------------------------------------------------------------------------
(* UnifiedMcapWriter.CreateChannel *)

CallCreateChannel(t, topic, schemaName, metadata) ==
    /\ unified = "ok"
    /\ pc[t] = "idle"
    /\ ncalls < MaxCalls
    /\ ncalls' = ncalls + 1
    /\ Lock(t)
    /\ pc' = [pc EXCEPT ![t] = "cc_check"]
    /\ frame' = [frame EXCEPT ![t] = [NoFrame EXCEPT !.op = "CreateChannel",
                                                     !.topic = topic,
                                                     !.schema = schemaName,
                                                     !.meta = metadata]]
    /\ UNCHANGED <<unified, fileVars, stream, closed, registry, schemaVars,
                   channelVars, adapterVars, hist, faults>>

\* a CreateChannel that enters its body without taking the mutex
CreateChannelNoLock(t) ==
    /\ pc[t] = "cc_lock"
    /\ pc' = [pc EXCEPT ![t] = "cc_check"]
    /\ UNCHANGED <<unified, fileVars, stream, mu, closed, registry, schemaVars,
                   channelVars, adapterVars, frame, hist, ncalls, faults>>

\* u.mu.Lock()
CreateChannelLock(t) ==
    /\ pc[t] = "cc_lock"
    /\ Lock(t)
    /\ pc' = [pc EXCEPT ![t] = "cc_check"]
    /\ UNCHANGED <<unified, fileVars, stream, closed, registry, schemaVars,
                   channelVars, adapterVars, frame, hist, ncalls, faults>>

\* the existing-channel check and the schema id lookup
CreateChannelCheck(t) ==
    /\ pc[t] = "cc_check"
    /\ LET f == frame[t]
           ch == LookupChannel(f.topic)
           sc == LookupSchemaID(f.schema)
       IN IF ch.exists
          THEN /\ mu' = NoThread
               /\ hist' = Append(hist, Done("CreateChannel", t, f, ch.id,
                                            "nil", FALSE))
               /\ pc' = [pc EXCEPT ![t] = f.cont]
               /\ frame' = [frame EXCEPT ![t] = RetFrame(f, "nil", ch.id)]
          ELSE IF ~sc.exists
          THEN /\ mu' = NoThread
               /\ hist' = Append(hist, Done("CreateChannel", t, f, 0,
                                            "not_registered", FALSE))
               /\ pc' = [pc EXCEPT ![t] = f.cont]
               /\ frame' = [frame EXCEPT ![t] = RetFrame(f, "not_registered", 0)]
          ELSE /\ pc' = [pc EXCEPT ![t] = "cc_write"]
               /\ frame' = [frame EXCEPT ![t].i = sc.id,
                                         ![t].id = nextChannel]
               /\ UNCHANGED <<mu, hist>>
    /\ UNCHANGED <<unified, fileVars, stream, closed, registry, schemaVars,
                   channelVars, adapterVars, ncalls, faults>>

\* a CreateChannel that binds the topic although WriteChannel failed
CreateChannelWriteBindAnyway(t) ==
    /\ pc[t] = "cc_write"
    /\ LET f == frame[t]
       IN \E ok \in Outcomes :
          /\ stream' = IF ok
                       THEN Append(stream, ChannelRec(f.id, f.i, f.topic, f.meta))
                       ELSE stream
          /\ faults' = Fault(ok)
          /\ pc' = [pc EXCEPT ![t] = "cc_bind"]
          /\ UNCHANGED <<mu, frame, hist>>
    /\ UNCHANGED <<unified, fileVars, closed, registry, schemaVars,
                   channelVars, adapterVars, ncalls>>

\* u.writer.WriteChannel
CreateChannelWrite(t) ==
    /\ pc[t] = "cc_write"
    /\ LET f == frame[t]
       IN \E ok \in Outcomes :
          IF ok
          THEN /\ stream' = Append(stream, ChannelRec(f.id, f.i, f.topic, f.meta))
               /\ pc' = [pc EXCEPT ![t] = "cc_bind"]
               /\ UNCHANGED <<mu, frame, hist, faults>>
          ELSE /\ mu' = NoThread
               /\ faults' = Fault(FALSE)
               /\ hist' = Append(hist, Done("CreateChannel", t, f, 0,
                                            "write_failed", FALSE))
               /\ pc' = [pc EXCEPT ![t] = f.cont]
               /\ frame' = [frame EXCEPT ![t] = RetFrame(f, "write_failed", 0)]
               /\ UNCHANGED stream
    /\ UNCHANGED <<unified, fileVars, closed, registry, schemaVars,
                   channelVars, adapterVars, ncalls>>

\* u.channels[topic] = channelID; u.nextChannel++; return channelID, nil
CreateChannelBind(t) ==
    /\ pc[t] = "cc_bind"
    /\ LET f == frame[t]
       IN /\ channels' = MapSet(channels, f.topic, f.id)
          /\ nextChannel' = Inc16(nextChannel)
          /\ mu' = NoThread
          /\ hist' = Append(hist, Done("CreateChannel", t, f, f.id, "nil", TRUE))
          /\ pc' = [pc EXCEPT ![t] = f.cont]
          /\ frame' = [frame EXCEPT ![t] = RetFrame(f, "nil", f.id)]
    /\ UNCHANGED <<unified, fileVars, stream, closed, registry, schemaVars,
                   adapterVars, ncalls, faults>>

CreateChannelBody(t) ==
    \/ CreateChannelCheck(t)
    \/ CreateChannelWrite(t)
    \/ CreateChannelBind(t)

CreateChannel(t) ==
    \/ CreateChannelLock(t)
    \/ CreateChannelBody(t)

----------------------------------------------------------------------------
(* UnifiedMcapWriter.WriteMessage *)

CallWriteMessage(t, channelID) ==
    /\ unified = "ok"
    /\ pc[t] = "idle"
    /\ ncalls < MaxCalls
    /\ ncalls' = ncalls + 1
    /\ Lock(t)
    /\ pc' = [pc EXCEPT ![t] = "wm_write"]
    /\ frame' = [frame EXCEPT ![t] = [NoFrame EXCEPT !.op = "WriteMessage",
                                                     !.chan = channelID,
                                                     !.data = "raw"]]
    /\ UNCHANGED <<unified, fileVars, stream, closed, registry, schemaVars,
                   channelVars, adapterVars, hist, faults>>

\* u.mu.Lock()
WriteMessageLock(t) ==
    /\ pc[t] = "wm_lock"
    /\ Lock(t)
    /\ pc' = [pc EXCEPT ![t] = "wm_write"]
    /\ UNCHANGED <<unified, fileVars, stream, closed, registry, schemaVars,
                   channelVars, adapterVars, frame, hist, ncalls, faults>>

\* WriteMessage marking the writer closed when the codec refuses the record
WriteMessageWriteClosesOnError(t) ==
    /\ pc[t] = "wm_write"
    /\ LET f == frame[t]
       IN \E ok \in Outcomes :
          /\ stream' = IF ok
                       THEN Append(stream, MessageRec(f.chan, 0, f.data, f.mname))
                       ELSE stream
          /\ closed' = IF ok THEN closed ELSE TRUE
          /\ faults' = Fault(ok)
          /\ mu' = NoThread
          /\ hist' = Append(hist, Done("WriteMessage", t, f, f.chan,
                                       IF ok THEN "nil" ELSE "write_failed", ok))
          /\ pc' = [pc EXCEPT ![t] = f.cont]
          /\ frame' = [frame EXCEPT
                           ![t] = RetFrame(f, IF ok THEN "nil" ELSE "write_failed", 0)]
    /\ UNCHANGED <<unified, fileVars, registry, schemaVars,
                   channelVars, adapterVars, ncalls>>

\* WriteMessage numbering the records of each channel from 0
WriteMessageWriteCounting(t) ==
    /\ pc[t] = "wm_write"
    /\ LET f == frame[t]
           sequence == Cardinality({r \in 1..Len(stream) :
                                       /\ stream[r].kind = "message"
                                       /\ stream[r].ref = f.chan})
       IN \E ok \in Outcomes :
          /\ stream' = IF ok
                       THEN Append(stream,
                                   MessageRec(f.chan, sequence, f.data, f.mname))
                       ELSE stream
          /\ faults' = Fault(ok)
          /\ mu' = NoThread
          /\ hist' = Append(hist, Done("WriteMessage", t, f, f.chan,
                                       IF ok THEN "nil" ELSE "write_failed", ok))
          /\ pc' = [pc EXCEPT ![t] = f.cont]
          /\ frame' = [frame EXCEPT
                           ![t] = RetFrame(f, IF ok THEN "nil" ELSE "write_failed", 0)]
    /\ UNCHANGED <<unified, fileVars, closed, registry, schemaVars,
                   channelVars, adapterVars, ncalls>>

\* a WriteMessage that rejects a channel id it never handed out
WriteMessageWriteKnownOnly(t) ==
    /\ pc[t] = "wm_write"
    /\ LET f == frame[t]
           known == \E topic \in DOMAIN channels : channels[topic] = f.chan
       IN \E ok \in (IF known THEN Outcomes ELSE {FALSE}) :
          /\ stream' = IF ok
                       THEN Append(stream, MessageRec(f.chan, 0, f.data, f.mname))
                       ELSE stream
          /\ faults' = IF known THEN Fault(ok) ELSE faults
          /\ mu' = NoThread
          /\ hist' = Append(hist, Done("WriteMessage", t, f, f.chan,
                                       IF ~known THEN "unknown_channel"
                                       ELSE IF ok THEN "nil" ELSE "write_failed", ok))
          /\ pc' = [pc EXCEPT ![t] = f.cont]
          /\ frame' = [frame EXCEPT ![t] = RetFrame(f, IF ok THEN "nil" ELSE "failed", 0)]
    /\ UNCHANGED <<unified, fileVars, closed, registry, schemaVars,
                   channelVars, adapterVars, ncalls>>

\* WriteMessage returning without u.mu.Unlock()
WriteMessageWriteKeepsLock(t) ==
    /\ pc[t] = "wm_write"
    /\ LET f == frame[t]
       IN \E ok \in Outcomes :
          /\ stream' = IF ok
                       THEN Append(stream, MessageRec(f.chan, 0, f.data, f.mname))
                       ELSE stream
          /\ faults' = Fault(ok)
          /\ hist' = Append(hist, Done("WriteMessage", t, f, f.chan,
                                       IF ok THEN "nil" ELSE "write_failed", ok))
          /\ pc' = [pc EXCEPT ![t] = f.cont]
          /\ frame' = [frame EXCEPT
                           ![t] = RetFrame(f, IF ok THEN "nil" ELSE "write_failed", 0)]
    /\ UNCHANGED <<unified, fileVars, mu, closed, registry, schemaVars,
                   channelVars, adapterVars, ncalls>>

\* a WriteMessage that fails fast with a writer-closed error after Close
WriteMessageWriteGuarded(t) ==
    /\ pc[t] = "wm_write"
    /\ LET f == frame[t]
       IN \E ok \in (IF closed THEN {FALSE} ELSE Outcomes) :
          /\ stream' = IF ok
                       THEN Append(stream, MessageRec(f.chan, 0, f.data, f.mname))
                       ELSE stream
          /\ faults' = IF closed THEN faults ELSE Fault(ok)
          /\ mu' = NoThread
          /\ hist' = Append(hist, Done("WriteMessage", t, f, f.chan,
                                       IF closed THEN "writer_closed"
                                       ELSE IF ok THEN "nil" ELSE "write_failed", ok))
          /\ pc' = [pc EXCEPT ![t] = f.cont]
          /\ frame' = [frame EXCEPT ![t] = RetFrame(f, IF ok THEN "nil" ELSE "failed", 0)]
    /\ UNCHANGED <<unified, fileVars, closed, registry, schemaVars,
                   channelVars, adapterVars, ncalls>>

\* return u.writer.WriteMessage(...), with Sequence 0
WriteMessageWrite(t) ==
    /\ pc[t] = "wm_write"
    /\ LET f == frame[t]
       IN \E ok \in Outcomes :
          /\ stream' = IF ok
                       THEN Append(stream, MessageRec(f.chan, 0, f.data, f.mname))
                       ELSE stream
          /\ faults' = Fault(ok)
          /\ mu' = NoThread
          /\ hist' = Append(hist, Done("WriteMessage", t, f, f.chan,
                                       IF ok THEN "nil" ELSE "write_failed", ok))
          /\ pc' = [pc EXCEPT ![t] = f.cont]
          /\ frame' = [frame EXCEPT
                           ![t] = RetFrame(f, IF ok THEN "nil" ELSE "write_failed", 0)]
    /\ UNCHANGED <<unified, fileVars, closed, registry, schemaVars,
                   channelVars, adapterVars, ncalls>>

WriteMessage(t) ==
    \/ WriteMessageLock(t)
    \/ WriteMessageWrite(t)

----------------------------------------------------------------------------
(* UnifiedMcapWriter.Close, IsClosed, GetFilePath *)

CallClose(t) ==
    /\ unified = "ok"
    /\ pc[t] = "idle"
    /\ ncalls < MaxCalls
    /\ ncalls' = ncalls + 1
    /\ Lock(t)
    /\ pc' = [pc EXCEPT ![t] = "cl_body"]
    /\ frame' = [frame EXCEPT ![t] = [NoFrame EXCEPT !.op = "Close"]]
    /\ UNCHANGED <<unified, fileVars, stream, closed, registry, schemaVars,
                   channelVars, adapterVars, hist, faults>>

\* u.mu.Lock()
CloseLock(t) ==
    /\ pc[t] = "cl_lock"
    /\ Lock(t)
    /\ pc' = [pc EXCEPT ![t] = "cl_body"]
    /\ UNCHANGED <<unified, fileVars, stream, closed, registry, schemaVars,
                   channelVars, adapterVars, frame, hist, ncalls, faults>>

\* the closed check, u.writer.Close(), u.file.Close(), u.closed = true
CloseBody(t) ==
    /\ pc[t] = "cl_body"
    /\ LET f == frame[t]
       IN IF closed
          THEN /\ frame' = [frame EXCEPT ![t] = RetFrame(f, "nil", 0)]
               /\ hist' = Append(hist, Done("Close", t, f, 0, "nil", FALSE))
               /\ UNCHANGED <<file, closeCalls, stream, closed, faults>>
          ELSE \E okCodec \in Outcomes :
               IF ~okCodec
               THEN /\ closeCalls' = [codec |-> closeCalls.codec + 1,
                                      file |-> closeCalls.file + 1]
                    /\ file' = "closed"
                    /\ faults' = Fault(FALSE)
                    /\ frame' = [frame EXCEPT ![t] = RetFrame(f, "close_failed", 0)]
                    /\ hist' = Append(hist, Done("Close", t, f, 0,
                                                 "close_failed", FALSE))
                    /\ UNCHANGED <<stream, closed>>
               ELSE \E okFile \in Outcomes :
                    /\ closeCalls' = [codec |-> closeCalls.codec + 1,
                                      file |-> closeCalls.file + 1]
                    /\ stream' = Append(stream, FooterRec)
                    /\ file' = "closed"
                    /\ faults' = Fault(okFile)
                    /\ closed' = okFile
                    /\ frame' = [frame EXCEPT ![t] =
                          RetFrame(f, IF okFile THEN "nil" ELSE "close_failed", 0)]
                    /\ hist' = Append(hist, Done("Close", t, f, 0,
                          IF okFile THEN "nil" ELSE "close_failed", okFile))
    /\ mu' = NoThread
    /\ pc' = [pc EXCEPT ![t] = frame[t].cont]
    /\ UNCHANGED <<unified, filePath, registry, schemaVars, channelVars,
                   adapterVars, ncalls>>

Close(t) ==
    \/ CloseLock(t)
    \/ CloseBody(t)

CallIsClosed(t) ==
    /\ unified = "ok"
    /\ pc[t] = "idle"
    /\ ncalls < MaxCalls
    /\ ncalls' = ncalls + 1
    /\ Lock(t)
    /\ pc' = [pc EXCEPT ![t] = "ic_body"]
    /\ frame' = [frame EXCEPT ![t] = [NoFrame EXCEPT !.op = "IsClosed"]]
    /\ UNCHANGED <<unified, fileVars, stream, closed, registry, schemaVars,
                   channelVars, adapterVars, hist, faults>>

\* u.mu.Lock()
IsClosedLock(t) ==
    /\ pc[t] = "ic_lock"
    /\ Lock(t)
    /\ pc' = [pc EXCEPT ![t] = "ic_body"]
    /\ UNCHANGED <<unified, fileVars, stream, closed, registry, schemaVars,
                   channelVars, adapterVars, frame, hist, ncalls, faults>>

\* IsClosed reporting whether the file was closed in place of u.closed
IsClosedBodyFile(t) ==
    /\ pc[t] = "ic_body"
    /\ mu' = NoThread
    /\ pc' = [pc EXCEPT ![t] = frame[t].cont]
    /\ frame' = [frame EXCEPT
                     ![t] = RetFrame(frame[t], "nil",
                                     IF file = "closed" THEN 1 ELSE 0)]
    /\ UNCHANGED <<unified, fileVars, stream, closed, registry, schemaVars,
                   channelVars, adapterVars, hist, ncalls, faults>>

\* return u.closed
IsClosedBody(t) ==
    /\ pc[t] = "ic_body"
    /\ mu' = NoThread
    /\ pc' = [pc EXCEPT ![t] = frame[t].cont]
    /\ frame' = [frame EXCEPT
                     ![t] = RetFrame(frame[t], "nil", IF closed THEN 1 ELSE 0)]
    /\ UNCHANGED <<unified, fileVars, stream, closed, registry, schemaVars,
                   channelVars, adapterVars, hist, ncalls, faults>>

IsClosed(t) ==
    \/ IsClosedLock(t)
    \/ IsClosedBody(t)

\* return u.filePath: no lock, no effect
GetFilePath(t) ==
    /\ unified = "ok"
    /\ pc[t] = "idle"
    /\ ncalls < MaxCalls
    /\ ncalls' = ncalls + 1
    /\ UNCHANGED <<unified, fileVars, stream, mu, closed, registry, schemaVars,
                   channelVars, adapterVars, pc, frame, hist, faults>>

----------------------------------------------------------------------------
(* LogMcapWriter *)

\* NewLogMcapWriter up to its call of CreateLogChannel.  Pulse.New calls it
\* once, through NewLogger, before it hands the Pulse to any producer.
CallNewLogMcapWriter(t) ==
    /\ unified = "ok"
    /\ pc[t] = "idle"
    /\ ~logWriter.exists
    /\ ncalls = 0
    /\ \A i \in 1..Len(hist) : hist[i].caller # "NewLogMcapWriter"
    /\ Lock(t)
    /\ pc' = [pc EXCEPT ![t] = "cc_check"]
    /\ frame' = [frame EXCEPT ![t] = [NoFrame EXCEPT !.op = "NewLogMcapWriter",
                                                     !.topic = LogTopic(ServiceName),
                                                     !.schema = LogSchemaName,
                                                     !.meta = LogMetadata,
                                                     !.cont = "nl_ret"]]
    /\ UNCHANGED <<unified, fileVars, stream, closed, registry, schemaVars,
                   channelVars, adapterVars, hist, ncalls, faults>>

\* NewLogMcapWriter handing out the adapter without looking at the error of
\* CreateLogChannel
NewLogMcapWriterRetIgnoreErr(t) ==
    /\ pc[t] = "nl_ret"
    /\ logWriter' = [exists |-> TRUE, channelID |-> frame[t].rv]
    /\ pc' = [pc EXCEPT ![t] = "idle"]
    /\ frame' = [frame EXCEPT ![t] = NoFrame]
    /\ UNCHANGED <<unified, fileVars, stream, mu, closed, registry, schemaVars,
                   channelVars, metricWriter, mchannels, mmu, hist, ncalls, faults>>

\* NewLogMcapWriter after CreateLogChannel: the adapter holds the channel id
NewLogMcapWriterRet(t) ==
    /\ pc[t] = "nl_ret"
    /\ logWriter' = IF frame[t].err = "nil"
                    THEN [exists |-> TRUE, channelID |-> frame[t].rv]
                    ELSE logWriter
    /\ pc' = [pc EXCEPT ![t] = "idle"]
    /\ frame' = [frame EXCEPT ![t] = NoFrame]
    /\ UNCHANGED <<unified, fileVars, stream, mu, closed, registry, schemaVars,
                   channelVars, metricWriter, mchannels, mmu, hist, ncalls, faults>>

\* LogMcapWriter.WriteLog: the record is built and handed to WriteMessage
WriteLog(t) ==
    /\ unified = "ok"
    /\ pc[t] = "idle"
    /\ logWriter.exists
    /\ ncalls < MaxCalls
    /\ ncalls' = ncalls + 1
    /\ Lock(t)
    /\ pc' = [pc EXCEPT ![t] = "wm_write"]
    /\ frame' = [frame EXCEPT ![t] = [NoFrame EXCEPT !.op = "WriteLog",
                                                     !.chan = logWriter.channelID,
                                                     !.data = "log"]]
    /\ UNCHANGED <<unified, fileVars, stream, closed, registry, schemaVars,
                   channelVars, adapterVars, hist, faults>>

NewLogMcapWriter(t) ==
    \/ CallNewLogMcapWriter(t)
    \/ NewLogMcapWriterRet(t)

----------------------------------------------------------------------------
(* MetricMcapWriter *)

\* Pulse.New calls it through NewMetrics, after NewLogger
NewMetricMcapWriter(t) ==
    /\ unified = "ok"
    /\ pc[t] = "idle"
    /\ ~metricWriter
    /\ ncalls = 0
    /\ \E i \in 1..Len(hist) : hist[i].caller = "NewLogMcapWriter"
    /\ metricWriter' = TRUE
    /\ mchannels' = EmptyMap
    /\ UNCHANGED <<unified, fileVars, stream, mu, closed, registry, schemaVars,
                   channelVars, logWriter, mmu, pc, frame, hist, ncalls, faults>>

\* where writeMetric goes back to: Metrics.Record, or a direct caller
MetricReturn(f) == IF f.op = "Record" THEN "rec_ret" ELSE "idle"

\* writeMetric enters getOrCreateChannel
CallWriteMetric(t, name) ==
    /\ unified = "ok"
    /\ pc[t] = "idle"
    /\ metricWriter
    /\ ncalls < MaxCalls
    /\ ncalls' = ncalls + 1
    /\ AdapterLock(t)
    /\ pc' = [pc EXCEPT ![t] = "gc_check"]
    /\ frame' = [frame EXCEPT ![t] = [NoFrame EXCEPT !.op = "writeMetric",
                                                     !.mname = name,
                                                     !.data = "metric"]]
    /\ UNCHANGED <<unified, fileVars, stream, mu, closed, registry, schemaVars,
                   channelVars, logWriter, metricWriter, mchannels, hist, faults>>

\* the cache lookup; a miss derives the topic and calls CreateMetricChannel
GetOrCreateChannelCheck(t) ==
    /\ pc[t] = "gc_check"
    /\ LET f == frame[t]
       IN IF f.mname \in DOMAIN mchannels
          THEN /\ mmu' = NoThread
               /\ pc' = [pc EXCEPT ![t] = "wm_lock"]
               /\ frame' = [frame EXCEPT ![t].chan = mchannels[f.mname]]
          ELSE /\ pc' = [pc EXCEPT ![t] = "cc_lock"]
               /\ frame' = [frame EXCEPT
                     ![t].topic = MetricTopic(ServiceName, f.mname),
                     ![t].schema = MetricSchemaName,
                     ![t].meta = MetaPut(MetricMetadata, "metric_name", f.mname),
                     ![t].cont = "gc_ret"]
               /\ UNCHANGED mmu
    /\ UNCHANGED <<unified, fileVars, stream, mu, closed, registry, schemaVars,
                   channelVars, logWriter, metricWriter, mchannels, hist,
                   ncalls, faults>>

\* getOrCreateChannel caching the writer's next free id in place of the id
\* CreateMetricChannel returned
GetOrCreateChannelRetNextID(t) ==
    /\ pc[t] = "gc_ret"
    /\ LET f == frame[t]
       IN IF f.err # "nil"
          THEN /\ pc' = [pc EXCEPT ![t] = MetricReturn(f)]
               /\ frame' = [frame EXCEPT ![t] =
                     IF f.op = "Record" THEN [f EXCEPT !.cont = "rec_ret"]
                                        ELSE NoFrame]
               /\ UNCHANGED mchannels
          ELSE /\ mchannels' = MapSet(mchannels, f.mname, nextChannel)
               /\ pc' = [pc EXCEPT ![t] = "wm_lock"]
               /\ frame' = [frame EXCEPT ![t].chan = nextChannel,
                                         ![t].cont = MetricReturn(f)]
    /\ mmu' = NoThread
    /\ UNCHANGED <<unified, fileVars, stream, mu, closed, registry, schemaVars,
                   channelVars, logWriter, metricWriter, hist, ncalls, faults>>

\* getOrCreateChannel dropping the error of CreateMetricChannel: the zero id
\* is cached and written to
GetOrCreateChannelRetIgnoreErr(t) ==
    /\ pc[t] = "gc_ret"
    /\ LET f == frame[t]
       IN /\ mchannels' = MapSet(mchannels, f.mname, f.rv)
          /\ pc' = [pc EXCEPT ![t] = "wm_lock"]
          /\ frame' = [frame EXCEPT ![t].chan = f.rv,
                                    ![t].err = "nil",
                                    ![t].cont = MetricReturn(f)]
    /\ mmu' = NoThread
    /\ UNCHANGED <<unified, fileVars, stream, mu, closed, registry, schemaVars,
                   channelVars, logWriter, metricWriter, hist, ncalls, faults>>

\* getOrCreateChannel returning the new id without storing it in m.channels
GetOrCreateChannelRetNoCache(t) ==
    /\ pc[t] = "gc_ret"
    /\ LET f == frame[t]
       IN IF f.err # "nil"
          THEN /\ pc' = [pc EXCEPT ![t] = MetricReturn(f)]
               /\ frame' = [frame EXCEPT ![t] =
                     IF f.op = "Record" THEN [f EXCEPT !.cont = "rec_ret"]
                                        ELSE NoFrame]
          ELSE /\ pc' = [pc EXCEPT ![t] = "wm_lock"]
               /\ frame' = [frame EXCEPT ![t].chan = f.rv,
                                         ![t].cont = MetricReturn(f)]
    /\ mmu' = NoThread
    /\ UNCHANGED <<unified, fileVars, stream, mu, closed, registry, schemaVars,
                   channelVars, logWriter, metricWriter, mchannels, hist,
                   ncalls, faults>>

\* getOrCreateChannel after CreateMetricChannel: an error ends writeMetric,
\* otherwise the id is cached and writeMetric goes on to WriteMessage
GetOrCreateChannelRet(t) ==
    /\ pc[t] = "gc_ret"
    /\ LET f == frame[t]
       IN IF f.err # "nil"
          THEN /\ pc' = [pc EXCEPT ![t] = MetricReturn(f)]
               /\ frame' = [frame EXCEPT ![t] =
                     IF f.op = "Record" THEN [f EXCEPT !.cont = "rec_ret"]
                                        ELSE NoFrame]
               /\ UNCHANGED mchannels
          ELSE /\ mchannels' = MapSet(mchannels, f.mname, f.rv)
               /\ pc' = [pc EXCEPT ![t] = "wm_lock"]
               /\ frame' = [frame EXCEPT ![t].chan = f.rv,
                                         ![t].cont = MetricReturn(f)]
    /\ mmu' = NoThread
    /\ UNCHANGED <<unified, fileVars, stream, mu, closed, registry, schemaVars,
                   channelVars, logWriter, metricWriter, hist, ncalls, faults>>

getOrCreateChannel(t) ==
    \/ GetOrCreateChannelCheck(t)
    \/ GetOrCreateChannelRet(t)

writeMetric(t) ==
    \/ \E name \in MetricNames : CallWriteMetric(t, name)
    \/ getOrCreateChannel(t)

----------------------------------------------------------------------------
NewUnifiedMcapWriter(t) ==
    \/ \E path \in Paths : CallNewUnifiedMcapWriter(t, path)
    \/ NewOpen(t)
    \/ RegisterBuiltInSchemas(t)
    \/ BuiltInRegistered(t)

\* Id allocation: the writer under arbitrary concurrent RegisterSchema,
\* AddCustomSchema and CreateChannel calls.  A call made from idle starts at
\* its u.mu.Lock(); the Lock actions are the nested calls'.
Next ==
    \E t \in Threads :
        \/ NewUnifiedMcapWriter(t)
        \/ \E name \in SchemaNames : CallRegisterSchema(t, name)
        \/ RegisterSchema(t)
        \/ \E schema \in CustomDefs : CallAddCustomSchema(t, CustomSchemaName, schema)
        \/ AddCustomSchema(t)
        \/ \E topic \in Topics, schemaName \in {LogSchemaName, PlotSchemaName},
              metadata \in Metas :
              CallCreateChannel(t, topic, schemaName, metadata)
        \/ CreateChannelBody(t)

Spec == Init /\ [][Next]_vars

\* The recording as Pulse wires it: producers write through the two adapters
\* while schemas and channels are registered on the writer.
NextProducers ==
    \E t \in Threads :
        \/ NewUnifiedMcapWriter(t)
        \/ CallRegisterSchema(t, PlotSchemaName)
        \/ RegisterSchema(t)
        \/ CallAddCustomSchema(t, CustomSchemaName, "customSchemaA")
        \/ AddCustomSchema(t)
        \/ CallCreateChannel(t, <<"t">>, PlotSchemaName, {})
        \/ CreateChannel(t)
        \/ NewLogMcapWriter(t)
        \/ WriteLog(t)
        \/ NewMetricMcapWriter(t)
        \/ CallWriteMetric(t, CpuLoad)
        \/ getOrCreateChannel(t)
        \/ WriteMessage(t)

SpecProducers == Init /\ [][NextProducers]_vars

\* The writer used directly through its whole life: registrations, channel
\* creations and message writes race with each other and with Close.
NextLifecycle ==
    \E t \in Threads :
        \/ NewUnifiedMcapWriter(t)
        \/ CallRegisterSchema(t, PlotSchemaName)
        \/ RegisterSchema(t)
        \/ CallAddCustomSchema(t, CustomSchemaName, "customSchemaA")
        \/ AddCustomSchema(t)
        \/ CallCreateChannel(t, <<"t">>, LogSchemaName, {})
        \/ CreateChannelBody(t)
        \/ \E channelID \in ChannelIDs : CallWriteMessage(t, channelID)
        \/ WriteMessageWrite(t)
        \/ CallClose(t)
        \/ CloseBody(t)

SpecLifecycle == Init /\ [][NextLifecycle]_vars

\* A session from Pulse.New to Pulse.Close: the adapters are the only
\* producers, and the owner closes the writer.
NextSession ==
    \E t \in Threads :
        \/ NewUnifiedMcapWriter(t)
        \/ RegisterSchema(t)
        \/ CreateChannel(t)
        \/ NewLogMcapWriter(t)
        \/ WriteLog(t)
        \/ NewMetricMcapWriter(t)
        \/ writeMetric(t)
        \/ WriteMessage(t)
        \/ CallClose(t)
        \/ CloseBody(t)

SpecSession == Init /\ [][NextSession]_vars

----------------------------------------------------------------------------
(* Logger and Metrics, the producers in front of the adapters *)

\* a call that finished without touching the writer
Returned(op, e) == Done(op, 0, [NoFrame EXCEPT !.op = op], 0, e, FALSE)

\* where Logger.log goes back to: Pulse.Close calls it through Logger.Warn
\* and goes on to close the writer
LogReturn(f) == IF f.op = "Pulse.Close" THEN "cl_lock" ELSE "idle"

\* Logger.log up to the mcapWriter test: without an adapter nothing is
\* written, with one the writer is asked whether it is closed
CallLoggerLog(t) ==
    /\ unified = "ok"
    /\ pc[t] = "idle"
    /\ ncalls < MaxCalls
    /\ ncalls' = ncalls + 1
    /\ IF logWriter.exists
       THEN /\ pc' = [pc EXCEPT ![t] = "ic_lock"]
            /\ frame' = [frame EXCEPT ![t] = [NoFrame EXCEPT !.op = "Logger.log",
                                                             !.cont = "lg_closed"]]
            /\ UNCHANGED hist
       ELSE /\ hist' = Append(hist, Returned("Logger.log", "nil"))
            /\ UNCHANGED <<pc, frame>>
    /\ UNCHANGED <<unified, fileVars, stream, mu, closed, registry, schemaVars,
                   channelVars, adapterVars, faults>>

\* !l.mcapWriter.IsClosed(): a closed writer ends the call, an open one gets
\* the record through WriteLog
LoggerLogClosed(t) ==
    /\ pc[t] = "lg_closed"
    /\ LET f == frame[t]
       IN IF f.rv = 1
          THEN /\ hist' = Append(hist, Done("Logger.log", t, f, 0, "nil", FALSE))
               /\ pc' = [pc EXCEPT ![t] = LogReturn(f)]
               /\ frame' = [frame EXCEPT ![t] =
                     IF f.op = "Pulse.Close"
                     THEN [NoFrame EXCEPT !.op = f.op, !.cont = "pc_metrics"]
                     ELSE NoFrame]
          ELSE /\ pc' = [pc EXCEPT ![t] = "wm_lock"]
               /\ frame' = [frame EXCEPT ![t].chan = logWriter.channelID,
                                         ![t].data = "log",
                                         ![t].cont = "lg_ret"]
               /\ UNCHANGED hist
    /\ UNCHANGED <<unified, fileVars, stream, mu, closed, registry, schemaVars,
                   channelVars, adapterVars, ncalls, faults>>

\* Logger.log after WriteLog: its error is printed as a warning on stderr and
\* the call ends; id 1 marks the call that wrote
LoggerLogRet(t) ==
    /\ pc[t] = "lg_ret"
    /\ LET f == frame[t]
       IN /\ hist' = Append(hist, Done("Logger.log", t, f, 1, f.err, FALSE))
          /\ pc' = [pc EXCEPT ![t] = LogReturn(f)]
          /\ frame' = [frame EXCEPT ![t] =
                IF f.op = "Pulse.Close"
                THEN [NoFrame EXCEPT !.op = f.op, !.cont = "pc_metrics"]
                ELSE NoFrame]
    /\ UNCHANGED <<unified, fileVars, stream, mu, closed, registry, schemaVars,
                   channelVars, adapterVars, ncalls, faults>>

LoggerLog(t) ==
    \/ CallLoggerLog(t)
    \/ LoggerLogClosed(t)
    \/ LoggerLogRet(t)

\* Metrics.Record of one counter: recordCounter returns what WriteCounter,
\* that is writeMetric, returns; without an adapter it returns nil
CallRecord(t, name) ==
    /\ unified = "ok"
    /\ pc[t] = "idle"
    /\ ncalls < MaxCalls
    /\ ncalls' = ncalls + 1
    /\ IF metricWriter
       THEN /\ AdapterLock(t)
            /\ pc' = [pc EXCEPT ![t] = "gc_check"]
            /\ frame' = [frame EXCEPT ![t] = [NoFrame EXCEPT !.op = "Record",
                                                             !.mname = name,
                                                             !.data = "metric",
                                                             !.cont = "rec_ret"]]
            /\ UNCHANGED hist
       ELSE /\ hist' = Append(hist, Returned("Record", "nil"))
            /\ UNCHANGED <<pc, frame, mmu>>
    /\ UNCHANGED <<unified, fileVars, stream, mu, closed, registry, schemaVars,
                   channelVars, logWriter, metricWriter, mchannels, faults>>

\* Record handing back nil whatever the adapter returned
RecordRetSwallow(t) ==
    /\ pc[t] = "rec_ret"
    /\ hist' = Append(hist, Done("Record", t, frame[t], 0, "nil", FALSE))
    /\ pc' = [pc EXCEPT ![t] = "idle"]
    /\ frame' = [frame EXCEPT ![t] = NoFrame]
    /\ UNCHANGED <<unified, fileVars, stream, mu, closed, registry, schemaVars,
                   channelVars, adapterVars, ncalls, faults>>

\* Record returns the error of getOrCreateChannel or of WriteMessage
RecordRet(t) ==
    /\ pc[t] = "rec_ret"
    /\ hist' = Append(hist, Done("Record", t, frame[t], 0, frame[t].err, FALSE))
    /\ pc' = [pc EXCEPT ![t] = "idle"]
    /\ frame' = [frame EXCEPT ![t] = NoFrame]
    /\ UNCHANGED <<unified, fileVars, stream, mu, closed, registry, schemaVars,
                   channelVars, adapterVars, ncalls, faults>>

Record(t) ==
    \/ CallRecord(t, CpuLoad)
    \/ RecordRet(t)
----------------------------------------------------------------------------
(* The Close methods of the adapters and of their owners *)

\* LogMcapWriter.Close calling Close on the unified writer
LogMcapWriterCloseOwning(t) ==
    /\ unified = "ok"
    /\ pc[t] = "idle"
    /\ logWriter.exists
    /\ ncalls < MaxCalls
    /\ ncalls' = ncalls + 1
    /\ Lock(t)
    /\ pc' = [pc EXCEPT ![t] = "cl_body"]
    /\ frame' = [frame EXCEPT ![t] = [NoFrame EXCEPT !.op = "LogMcapWriter.Close"]]
    /\ UNCHANGED <<unified, fileVars, stream, closed, registry, schemaVars,
                   channelVars, adapterVars, hist, faults>>

\* LogMcapWriter.Close: return nil
LogMcapWriterClose(t) ==
    /\ unified = "ok"
    /\ pc[t] = "idle"
    /\ logWriter.exists
    /\ ncalls < MaxCalls
    /\ ncalls' = ncalls + 1
    /\ hist' = Append(hist, Returned("LogMcapWriter.Close", "nil"))
    /\ UNCHANGED <<unified, fileVars, stream, mu, closed, registry, schemaVars,
                   channelVars, adapterVars, pc, frame, faults>>

\* MetricMcapWriter.Close: return nil
MetricMcapWriterClose(t) ==
    /\ unified = "ok"
    /\ pc[t] = "idle"
    /\ metricWriter
    /\ ncalls < MaxCalls
    /\ ncalls' = ncalls + 1
    /\ hist' = Append(hist, Returned("MetricMcapWriter.Close", "nil"))
    /\ UNCHANGED <<unified, fileVars, stream, mu, closed, registry, schemaVars,
                   channelVars, adapterVars, pc, frame, faults>>

\* Metrics.Close: the adapter's Close if there is an adapter, nil otherwise
MetricsClose(t) ==
    /\ unified = "ok"
    /\ pc[t] = "idle"
    /\ ncalls < MaxCalls
    /\ ncalls' = ncalls + 1
    /\ hist' = Append(hist, Returned("Metrics.Close", "nil"))
    /\ UNCHANGED <<unified, fileVars, stream, mu, closed, registry, schemaVars,
                   channelVars, adapterVars, pc, frame, faults>>

\* where Logger.Close goes back to
LoggerCloseReturn(f) == IF f.op = "Pulse.Close" THEN "pc_tracing" ELSE "idle"

\* Logger.Close up to the mcapWriter test
CallLoggerClose(t) ==
    /\ unified = "ok"
    /\ pc[t] = "idle"
    /\ ncalls < MaxCalls
    /\ ncalls' = ncalls + 1
    /\ IF logWriter.exists
       THEN /\ pc' = [pc EXCEPT ![t] = "ic_lock"]
            /\ frame' = [frame EXCEPT ![t] = [NoFrame EXCEPT !.op = "Logger.Close",
                                                             !.cont = "lc_closed"]]
            /\ UNCHANGED hist
       ELSE /\ hist' = Append(hist, Returned("Logger.Close", "nil"))
            /\ UNCHANGED <<pc, frame>>
    /\ UNCHANGED <<unified, fileVars, stream, mu, closed, registry, schemaVars,
                   channelVars, adapterVars, faults>>

\* Logger.Close after IsClosed: on an open writer the adapter's Close, which
\* returns nil, and a line on stderr; nil in both cases
LoggerCloseRet(t) ==
    /\ pc[t] = "lc_closed"
    /\ LET f == frame[t]
       IN /\ hist' = Append(hist, Done("Logger.Close", t, f, 0, "nil", FALSE))
          /\ pc' = [pc EXCEPT ![t] = LoggerCloseReturn(f)]
          /\ frame' = [frame EXCEPT ![t] =
                IF f.op = "Pulse.Close" THEN [NoFrame EXCEPT !.op = f.op]
                                        ELSE NoFrame]
    /\ UNCHANGED <<unified, fileVars, stream, mu, closed, registry, schemaVars,
                   channelVars, adapterVars, ncalls, faults>>

LoggerClose(t) ==
    \/ CallLoggerClose(t)
    \/ LoggerCloseRet(t)

----------------------------------------------------------------------------
(* Pulse.Close *)

\* Pulse.Close going to the writer's Close without stopping the profiler
CallPulseCloseWriterFirst(t) ==
    /\ unified = "ok"
    /\ pc[t] = "idle"
    /\ ncalls < MaxCalls
    /\ \A i \in 1..Len(hist) : hist[i].caller # "Pulse.Close"
    /\ \A o \in Threads : frame[o].op # "Pulse.Close"
    /\ ncalls' = ncalls + 1
    /\ pc' = [pc EXCEPT ![t] = "cl_lock"]
    /\ frame' = [frame EXCEPT ![t] = [NoFrame EXCEPT !.op = "Pulse.Close",
                                                     !.cont = "pc_metrics"]]
    /\ UNCHANGED <<unified, fileVars, stream, mu, closed, registry, schemaVars,
                   channelVars, adapterVars, hist, faults>>

\* Pulse.Close, first step: Profiler.Stop; its error goes to Logger.Warn,
\* and the writer's Close comes next either way.  The owner shuts down once.
CallPulseClose(t) ==
    /\ unified = "ok"
    /\ pc[t] = "idle"
    /\ ncalls < MaxCalls
    /\ \A i \in 1..Len(hist) : hist[i].caller # "Pulse.Close"
    /\ \A o \in Threads : frame[o].op # "Pulse.Close"
    /\ ncalls' = ncalls + 1
    /\ \E ok \in BOOLEAN :
          LET f == [NoFrame EXCEPT !.op = "Pulse.Close"]
          IN /\ hist' = Append(hist, Done("Profiler.Stop", t, f, 0,
                                          IF ok THEN "nil" ELSE "stop_failed", FALSE))
             /\ IF ok \/ ~logWriter.exists
                THEN /\ pc' = [pc EXCEPT ![t] = "cl_lock"]
                     /\ frame' = [frame EXCEPT ![t] = [f EXCEPT !.cont = "pc_metrics"]]
                ELSE /\ pc' = [pc EXCEPT ![t] = "ic_lock"]
                     /\ frame' = [frame EXCEPT ![t] = [f EXCEPT !.cont = "lg_closed"]]
    /\ UNCHANGED <<unified, fileVars, stream, mu, closed, registry, schemaVars,
                   channelVars, adapterVars, faults>>

\* Pulse.Close after the writer's Close, whose error is dropped:
\* Metrics.Close, then Logger.Close
PulseCloseMetrics(t) ==
    /\ pc[t] = "pc_metrics"
    /\ LET f == [NoFrame EXCEPT !.op = "Pulse.Close"]
       IN IF logWriter.exists
          THEN /\ hist' = Append(hist, Done("Metrics.Close", t, f, 0, "nil", FALSE))
               /\ pc' = [pc EXCEPT ![t] = "ic_lock"]
               /\ frame' = [frame EXCEPT ![t] = [f EXCEPT !.cont = "lc_closed"]]
          ELSE /\ hist' = hist \o <<Done("Metrics.Close", t, f, 0, "nil", FALSE),
                                    Done("Logger.Close", t, f, 0, "nil", FALSE)>>
               /\ pc' = [pc EXCEPT ![t] = "pc_tracing"]
               /\ frame' = [frame EXCEPT ![t] = f]
    /\ UNCHANGED <<unified, fileVars, stream, mu, closed, registry, schemaVars,
                   channelVars, adapterVars, ncalls, faults>>

\* Pulse.Close, the end: Tracing.Close returns nil, and the result of
\* telemetry.Shutdown is the result of Pulse.Close
PulseCloseTracing(t) ==
    /\ pc[t] = "pc_tracing"
    /\ \E ok \in BOOLEAN :
          LET f == frame[t]
              e == IF ok THEN "nil" ELSE "shutdown_failed"
          IN hist' = hist \o <<Done("Tracing.Close", t, f, 0, "nil", FALSE),
                               Done("telemetry.Shutdown", t, f, 0, e, FALSE),
                               Returned("Pulse.Close", e)>>
    /\ pc' = [pc EXCEPT ![t] = "idle"]
    /\ frame' = [frame EXCEPT ![t] = NoFrame]
    /\ UNCHANGED <<unified, fileVars, stream, mu, closed, registry, schemaVars,
                   channelVars, adapterVars, ncalls, faults>>

PulseClose(t) ==
    \/ CallPulseClose(t)
    \/ PulseCloseMetrics(t)
    \/ PulseCloseTracing(t)

\* The adapters' Close methods called at any time by any thread, next to log
\* writes and to the owner's Close of the writer.
NextAdapterClose ==
    \E t \in Threads :
        \/ NewUnifiedMcapWriter(t)
        \/ RegisterSchema(t)
        \/ CreateChannelBody(t)
        \/ NewLogMcapWriter(t)
        \/ NewMetricMcapWriter(t)
        \/ WriteLog(t)
        \/ WriteMessageWrite(t)
        \/ LogMcapWriterClose(t)
        \/ MetricMcapWriterClose(t)
        \/ MetricsClose(t)
        \/ LoggerClose(t)
        \/ IsClosed(t)
        \/ CallClose(t)
        \/ CloseBody(t)

SpecAdapterClose == Init /\ [][NextAdapterClose]_vars

\* Shutdown: producers still write logs while the owner runs Pulse.Close,
\* which itself logs through Logger.Warn when the profiler fails to stop.
NextShutdown ==
    \E t \in Threads :
        \/ NewUnifiedMcapWriter(t)
        \/ RegisterSchema(t)
        \/ CreateChannelBody(t)
        \/ NewLogMcapWriter(t)
        \/ WriteLog(t)
        \/ PulseClose(t)
        \/ IsClosed(t)
        \/ LoggerLogClosed(t)
        \/ LoggerLogRet(t)
        \/ WriteMessage(t)
        \/ Close(t)
        \/ LoggerCloseRet(t)

SpecShutdown == Init /\ [][NextShutdown]_vars

\* Events: producers log through Logger and record through Metrics.
NextEvents ==
    \E t \in Threads :
        \/ NewUnifiedMcapWriter(t)
        \/ RegisterSchema(t)
        \/ CreateChannel(t)
        \/ NewLogMcapWriter(t)
        \/ NewMetricMcapWriter(t)
        \/ LoggerLog(t)
        \/ Record(t)
        \/ getOrCreateChannel(t)
        \/ WriteMessage(t)
        \/ IsClosed(t)

SpecEvents == Init /\ [][NextEvents]_vars

----------------------------------------------------------------------------
(* Producers under a fair scheduler *)

\* what thread t can do: log and metric writes through the two adapters
NextLocksOf(t) ==
    \/ NewUnifiedMcapWriter(t)
    \/ RegisterSchema(t)
    \/ CreateChannel(t)
    \/ NewLogMcapWriter(t)
    \/ WriteLog(t)
    \/ NewMetricMcapWriter(t)
    \/ writeMetric(t)
    \/ WriteMessage(t)

NextLocks == \E t \in Threads : NextLocksOf(t)

\* a goroutine that is inside a call and can take a step is eventually
\* scheduled, and sync.Mutex hands a free lock to a waiter
Scheduling == \A t \in Threads : WF_vars(pc[t] # "idle" /\ NextLocksOf(t))

SpecLocks == Init /\ [][NextLocks]_vars /\ Scheduling

----------------------------------------------------------------------------
(* The SchemaRegistry on its own *)

\* the names the registry is asked about: two built-ins and a custom one
RegistryNames == {LogSchemaName, PlotSchemaName, CustomSchemaName}

\* a completed call on the registry: Register(name, schema), or Get(name)
\* with the schema and the exists flag it returned, or List() with the names
\* it returned
RegistryCall(op, name, schema, exists, names) ==
    [op |-> op, caller |-> "SchemaRegistry", name |-> name, topic |-> <<>>,
     schema |-> schema, meta |-> names, id |-> 0, err |-> "nil",
     new |-> exists]

\* NewSchemaRegistry() has returned
InitRegistry ==
    /\ unified = "nil"
    /\ file = "none"
    /\ filePath = ""
    /\ closeCalls = [codec |-> 0, file |-> 0]
    /\ stream = <<>>
    /\ mu = NoThread
    /\ closed = FALSE
    /\ registry = NewSchemaRegistry
    /\ schemaIDs = EmptyMap
    /\ nextSchemaID = 0
    /\ channels = EmptyMap
    /\ nextChannel = 0
    /\ logWriter = [exists |-> FALSE, channelID |-> 0]
    /\ metricWriter = FALSE
    /\ mchannels = EmptyMap
    /\ mmu = NoThread
    /\ pc = [t \in Threads |-> "idle"]
    /\ frame = [t \in Threads |-> NoFrame]
    /\ hist = <<>>
    /\ ncalls = 0
    /\ faults = 0

\* r.schemas[name] = schema
RegistryRegister(name, schema) ==
    /\ ncalls < MaxCalls
    /\ ncalls' = ncalls + 1
    /\ registry' = Register(registry, name, schema)
    /\ hist' = Append(hist, RegistryCall("Register", name, schema, FALSE, {}))
    /\ UNCHANGED <<unified, fileVars, stream, mu, closed, schemaVars,
                   channelVars, adapterVars, pc, frame, faults>>

\* schema, exists := r.schemas[name]
RegistryGet(name) ==
    /\ ncalls < MaxCalls
    /\ ncalls' = ncalls + 1
    /\ LET got == Get(registry, name)
       IN hist' = Append(hist, RegistryCall("Get", name, got.schema,
                                            got.exists, {}))
    /\ UNCHANGED <<unified, fileVars, stream, mu, closed, registry, schemaVars,
                   channelVars, adapterVars, pc, frame, faults>>

\* the keys of r.schemas, in the order the map iteration gives them
RegistryList ==
    /\ ncalls < MaxCalls
    /\ ncalls' = ncalls + 1
    /\ hist' = Append(hist, RegistryCall("List", "", "", FALSE, List(registry)))
    /\ UNCHANGED <<unified, fileVars, stream, mu, closed, registry, schemaVars,
                   channelVars, adapterVars, pc, frame, faults>>

NextRegistry ==
    \/ \E name \in {LogSchemaName, CustomSchemaName}, schema \in CustomDefs :
          RegistryRegister(name, schema)
    \/ \E name \in RegistryNames : RegistryGet(name)
    \/ RegistryList

SpecRegistry == InitRegistry /\ [][NextRegistry]_vars

----------------------------------------------------------------------------
(* Logging while the owner closes the writer *)

\* producers log through Logger while the owner calls Close on the writer
NextLogClose ==
    \E t \in Threads :
        \/ NewUnifiedMcapWriter(t)
        \/ RegisterSchema(t)
        \/ CreateChannelBody(t)
        \/ NewLogMcapWriter(t)
        \/ LoggerLog(t)
        \/ IsClosed(t)
        \/ WriteMessage(t)
        \/ CallClose(t)
        \/ CloseBody(t)

SpecLogClose == Init /\ [][NextLogClose]_vars

----------------------------------------------------------------------------
(* A writer that has handed out almost all of its channel ids *)

\* the decimal digits of n, as characters
Digit(d) ==
    CASE d = 0 -> "0" [] d = 1 -> "1" [] d = 2 -> "2" [] d = 3 -> "3"
      [] d = 4 -> "4" [] d = 5 -> "5" [] d = 6 -> "6" [] d = 7 -> "7"
      [] d = 8 -> "8" [] OTHER -> "9"

RECURSIVE Digits(_)
Digits(n) == IF n < 10 THEN <<Digit(n)>>
             ELSE Append(Digits(n \div 10), Digit(n % 10))

\* the topic "t<i>"
TopicNo(i) == <<"t">> \o Digits(i)

\* the number a sequence of digit characters stands for
RECURSIVE Number(_)
Number(s) ==
    IF s = <<>> THEN 0
    ELSE 10 * Number(SubSeq(s, 1, Len(s) - 1))
         + (CHOOSE d \in 0..9 : Digit(d) = s[Len(s)])

\* the channels created so far: every id but the last one
ChannelsCreated == Uint16 - 2

\* the topics asked for next
FreshTopics == {TopicNo(ChannelsCreated + k) : k \in 1..MaxCalls}

\* the earlier topics whose bindings and records the state carries: the
\* first two, whose ids a wrapped counter reaches again, and the last one.
\* No step below names any of the others, and their bindings and records
\* are left out of the state.
KeptTopics == {1, 2, ChannelsCreated}

\* the writer after NewUnifiedMcapWriter and ChannelsCreated successful
\* CreateChannel calls, for the topics t1, t2, ... with the log schema; hist
\* starts here
InitManyChannels ==
    /\ unified = "ok"
    /\ file = "open"
    /\ filePath = "out/svc.mcap"
    /\ closeCalls = [codec |-> 0, file |-> 0]
    /\ stream = <<HeaderRec(ServiceName),
                  SchemaRec(1, LogSchemaName, NewSchemaRegistry[LogSchemaName]),
                  SchemaRec(2, MetricSchemaName,
                            NewSchemaRegistry[MetricSchemaName])>>
                \o <<ChannelRec(1, 1, TopicNo(1), {}),
                      ChannelRec(2, 1, TopicNo(2), {}),
                      ChannelRec(ChannelsCreated, 1, TopicNo(ChannelsCreated), {})>>
    /\ mu = NoThread
    /\ closed = FALSE
    /\ registry = NewSchemaRegistry
    /\ schemaIDs = MapSet(MapSet(EmptyMap, LogSchemaName, 1), MetricSchemaName, 2)
    /\ nextSchemaID = 3
    /\ channels = [topic \in {TopicNo(i) : i \in KeptTopics} |->
                      Number(Tail(topic))]
    /\ nextChannel = ChannelsCreated + 1
    /\ logWriter = [exists |-> FALSE, channelID |-> 0]
    /\ metricWriter = FALSE
    /\ mchannels = EmptyMap
    /\ mmu = NoThread
    /\ pc = [t \in Threads |-> "idle"]
    /\ frame = [t \in Threads |-> NoFrame]
    /\ hist = <<>>
    /\ ncalls = 0
    /\ faults = 0

NextManyChannels ==
    \E t \in Threads :
        \/ \E topic \in FreshTopics : CallCreateChannel(t, topic, LogSchemaName, {})
        \/ CreateChannelBody(t)

SpecManyChannels == InitManyChannels /\ [][NextManyChannels]_vars

----------------------------------------------------------------------------
(* The writer's methods called one by one *)

\* Every public method of the writer that takes part in a recording, called
\* directly and concurrently: creations, writes, the two queries and Close.
NextQueries ==
    \E t \in Threads :
        \/ NewUnifiedMcapWriter(t)
        \/ RegisterSchema(t)
        \/ CallCreateChannel(t, <<"t">>, LogSchemaName, {})
        \/ CreateChannelBody(t)
        \/ \E channelID \in ChannelIDs : CallWriteMessage(t, channelID)
        \/ WriteMessageWrite(t)
        \/ CallIsClosed(t)
        \/ IsClosedBody(t)
        \/ GetFilePath(t)
        \/ CallClose(t)
        \/ CloseBody(t)

SpecQueries == Init /\ [][NextQueries]_vars

----------------------------------------------------------------------------
(* The topic derivations on their own *)

\* the adapters are about to derive their topics for a service and a metric
InitTopics ==
    /\ unified = "nil"
    /\ file = "none"
    /\ filePath = ""
    /\ closeCalls = [codec |-> 0, file |-> 0]
    /\ stream = <<>>
    /\ mu = NoThread
    /\ closed = FALSE
    /\ registry = EmptyMap
    /\ schemaIDs = EmptyMap
    /\ nextSchemaID = 0
    /\ channels = EmptyMap
    /\ nextChannel = 0
    /\ logWriter = [exists |-> FALSE, channelID |-> 0]
    /\ metricWriter = FALSE
    /\ mchannels = EmptyMap
    /\ mmu = NoThread
    /\ pc = [t \in Threads |-> "derive"]
    /\ \E service \in Services, metricName \in MetricNameInputs :
          frame = [t \in Threads |-> [NoFrame EXCEPT !.op = "topics",
                                                   !.service = service,
                                                   !.mname = metricName]]
    /\ hist = <<>>
    /\ ncalls = 0
    /\ faults = 0

\* topic := fmt.Sprintf("/logs/%s", serviceOpts.Name)
DeriveLogTopic(t) ==
    /\ pc[t] = "derive"
    /\ pc' = [pc EXCEPT ![t] = "log_topic"]
    /\ frame' = [frame EXCEPT ![t].topic = LogTopic(frame[t].service)]
    /\ UNCHANGED <<unified, fileVars, stream, mu, closed, registry, schemaVars,
                   channelVars, adapterVars, hist, ncalls, faults>>

\* topic := fmt.Sprintf("/metrics/%s/%s", m.serviceName, ...)
DeriveMetricTopic(t) ==
    /\ pc[t] = "log_topic"
    /\ pc' = [pc EXCEPT ![t] = "metric_topic"]
    /\ frame' = [frame EXCEPT
                     ![t].topic = MetricTopic(frame[t].service, frame[t].mname)]
    /\ UNCHANGED <<unified, fileVars, stream, mu, closed, registry, schemaVars,
                   channelVars, adapterVars, hist, ncalls, faults>>

NextTopics ==
    \E t \in Threads :
        \/ DeriveLogTopic(t)
        \/ DeriveMetricTopic(t)

SpecTopics == InitTopics /\ [][NextTopics]_vars

----------------------------------------------------------------------------
(* The level conversion on its own *)

\* LogLevel constants matching the Foxglove Log schema
LogLevelUnknown == 0
LogLevelDebug == 1
LogLevelInfo == 2
LogLevelWarning == 3
LogLevelError == 4
LogLevelFatal == 5

\* the letters, in both cases
LowerLetters ==
    <<"a", "b", "c", "d", "e", "f", "g", "h", "i", "j", "k", "l", "m", "n",
      "o", "p", "q", "r", "s", "t", "u", "v", "w", "x", "y", "z">>

UpperLetters ==
    <<"A", "B", "C", "D", "E", "F", "G", "H", "I", "J", "K", "L", "M", "N",
      "O", "P", "Q", "R", "S", "T", "U", "V", "W", "X", "Y", "Z">>

\* words the producers may pass as a level, in lower case: the five levels
\* Logger uses, the long form of warn, and words that name no level
LevelWords ==
    {<<"d", "e", "b", "u", "g">>,
     <<"i", "n", "f", "o">>,
     <<"w", "a", "r", "n">>,
     <<"w", "a", "r", "n", "i", "n", "g">>,
     <<"e", "r", "r", "o", "r">>,
     <<"f", "a", "t", "a", "l">>,
     <<"t", "r", "a", "c", "e">>,
     <<"p", "a", "n", "i", "c">>,
     <<>>}

\* the upper-case form of a lower-case letter
UpperLetter(c) == UpperLetters[CHOOSE i \in 1..26 : c = LowerLetters[i]]

\* every way of writing the lower-case word w in upper-case and lower-case
\* letters
Casings(w) ==
    {[k \in 1..Len(w) |-> IF k \in ups THEN UpperLetter(w[k]) ELSE w[k]] :
        ups \in SUBSET (1..Len(w))}

\* the level strings WriteLog is called with
LevelInputs == UNION {Casings(w) : w \in LevelWords}

\* the conversion without the short spellings of the warning level
stringToFoxgloveLevelNoWarn(level) ==
    CASE level \in
         {<<"D", "E", "B", "U", "G">>,
          <<"d", "e", "b", "u", "g">>,
          <<"D", "e", "b", "u", "g">>}
         -> LogLevelDebug
      [] level \in
         {<<"I", "N", "F", "O">>,
          <<"i", "n", "f", "o">>,
          <<"I", "n", "f", "o">>}
         -> LogLevelInfo
      [] level \in
         {<<"W", "A", "R", "N", "I", "N", "G">>,
          <<"w", "a", "r", "n", "i", "n", "g">>,
          <<"W", "a", "r", "n", "i", "n", "g">>}
         -> LogLevelWarning
      [] level \in
         {<<"E", "R", "R", "O", "R">>,
          <<"e", "r", "r", "o", "r">>,
          <<"E", "r", "r", "o", "r">>}
         -> LogLevelError
      [] level \in
         {<<"F", "A", "T", "A", "L">>,
          <<"f", "a", "t", "a", "l">>,
          <<"F", "a", "t", "a", "l">>}
         -> LogLevelFatal
      [] OTHER -> LogLevelUnknown

\* stringToFoxgloveLevel: the switch over the literal spellings
stringToFoxgloveLevel(level) ==
    CASE level \in
         {<<"D", "E", "B", "U", "G">>,
          <<"d", "e", "b", "u", "g">>,
          <<"D", "e", "b", "u", "g">>}
         -> LogLevelDebug
      [] level \in
         {<<"I", "N", "F", "O">>,
          <<"i", "n", "f", "o">>,
          <<"I", "n", "f", "o">>}
         -> LogLevelInfo
      [] level \in
         {<<"W", "A", "R", "N">>,
          <<"w", "a", "r", "n">>,
          <<"W", "a", "r", "n">>,
          <<"W", "A", "R", "N", "I", "N", "G">>,
          <<"w", "a", "r", "n", "i", "n", "g">>,
          <<"W", "a", "r", "n", "i", "n", "g">>}
         -> LogLevelWarning
      [] level \in
         {<<"E", "R", "R", "O", "R">>,
          <<"e", "r", "r", "o", "r">>,
          <<"E", "r", "r", "o", "r">>}
         -> LogLevelError
      [] level \in
         {<<"F", "A", "T", "A", "L">>,
          <<"f", "a", "t", "a", "l">>,
          <<"F", "a", "t", "a", "l">>}
         -> LogLevelFatal
      [] OTHER -> LogLevelUnknown

\* WriteLog is about to convert the level it was given
InitLevels ==
    /\ unified = "nil"
    /\ file = "none"
    /\ filePath = ""
    /\ closeCalls = [codec |-> 0, file |-> 0]
    /\ stream = <<>>
    /\ mu = NoThread
    /\ closed = FALSE
    /\ registry = EmptyMap
    /\ schemaIDs = EmptyMap
    /\ nextSchemaID = 0
    /\ channels = EmptyMap
    /\ nextChannel = 0
    /\ logWriter = [exists |-> FALSE, channelID |-> 0]
    /\ metricWriter = FALSE
    /\ mchannels = EmptyMap
    /\ mmu = NoThread
    /\ pc = [t \in Threads |-> "convert"]
    /\ \E level \in LevelInputs :
          frame = [t \in Threads |-> [NoFrame EXCEPT !.op = "WriteLog",
                                                   !.level = level]]
    /\ hist = <<>>
    /\ ncalls = 0
    /\ faults = 0

\* levelInt := stringToFoxgloveLevel(level)
ConvertLevel(t) ==
    /\ pc[t] = "convert"
    /\ pc' = [pc EXCEPT ![t] = "converted"]
    /\ frame' = [frame EXCEPT ![t].rv = stringToFoxgloveLevel(frame[t].level)]
    /\ UNCHANGED <<unified, fileVars, stream, mu, closed, registry, schemaVars,
                   channelVars, adapterVars, hist, ncalls, faults>>

NextLevels == \E t \in Threads : ConvertLevel(t)

SpecLevels == InitLevels /\ [][NextLevels]_vars

----------------------------------------------------------------------------
(* Properties *)

\* positions of the records of one kind in the stream
Recs(kind) == {i \in 1..Len(stream) : stream[i].kind = kind}

\* positions of the completed calls of one method
Calls(op) == {i \in 1..Len(hist) : hist[i].op = op}

\* the successful ones among them
Succeeded(op) == {i \in Calls(op) : hist[i].err = "nil"}

\* C1: every channel record's schemaId is the id of a schema record earlier
\* in the stream, and every data record's channelId is the id of a channel
\* record earlier in the stream.
C1_StreamOrdered ==
    \A j \in 1..Len(stream) :
        /\ stream[j].kind = "channel" =>
              \E i \in 1..(j - 1) : /\ stream[i].kind = "schema"
                                    /\ stream[i].id = stream[j].ref
        /\ stream[j].kind = "message" =>
              \E i \in 1..(j - 1) : /\ stream[i].kind = "channel"
                                    /\ stream[i].id = stream[j].ref

\* a stream holding a directly created channel on a schema registered after
\* construction, and a metric record written through the adapter
C1_Witness ==
    /\ \E j \in Recs("channel") : stream[j].topic = <<"t">> /\ stream[j].ref = 3
    /\ \E j \in Recs("message") : stream[j].data = "metric"

\* C2: two successful RegisterSchema calls with one name leave the name bound
\* to one id, and exactly one schema record of that name is in the stream.
C2_RegisterSchemaIdempotent ==
    \A i, j \in Succeeded("RegisterSchema") :
        (i < j /\ hist[i].name = hist[j].name) =>
            /\ hist[i].id = hist[j].id
            /\ hist[j].name \in DOMAIN schemaIDs
            /\ schemaIDs[hist[j].name] = hist[j].id
            /\ Cardinality({k \in Recs("schema") :
                               stream[k].name = hist[j].name}) = 1

\* a name registered by a call after construction and then registered again
C2_Witness ==
    \E i, j \in Succeeded("RegisterSchema") :
        /\ i < j
        /\ hist[i].name = hist[j].name
        /\ hist[i].caller # "New"
        /\ hist[i].new

\* C3: two successful CreateChannel calls with one topic return one id,
\* whatever their metadata, and the stream holds exactly one channel record
\* of that topic, carrying the metadata of the first of the successful calls.
C3_CreateChannelIdempotent ==
    \A i, j \in Succeeded("CreateChannel") :
        (i < j /\ hist[i].topic = hist[j].topic) =>
            /\ hist[i].id = hist[j].id
            /\ LET recs == {k \in Recs("channel") : stream[k].topic = hist[j].topic}
                   first == CHOOSE a \in Succeeded("CreateChannel") :
                              /\ hist[a].topic = hist[j].topic
                              /\ \A b \in Succeeded("CreateChannel") :
                                    hist[b].topic = hist[j].topic => a <= b
               IN /\ Cardinality(recs) = 1
                  /\ \A k \in recs : /\ stream[k].id = hist[j].id
                                     /\ stream[k].meta = hist[first].meta

\* two successful calls with one topic and different metadata
C3_Witness ==
    \E i, j \in Succeeded("CreateChannel") :
        /\ i < j
        /\ hist[i].topic = hist[j].topic
        /\ hist[i].meta # hist[j].meta

\* no call is under way
Quiescent == \A t \in Threads : pc[t] = "idle"

\* C4: once the callers of CreateChannel have returned, the writer holds one
\* binding and one channel record per topic they created, the ids are
\* pairwise distinct, and callers of one topic got one id.
C4_ConcurrentUniqueness ==
    Quiescent =>
        LET ok == Succeeded("CreateChannel")
            topics == {hist[i].topic : i \in ok}
        IN /\ DOMAIN channels = topics
           /\ Cardinality(Recs("channel")) = Cardinality(topics)
           /\ Cardinality({stream[k].id : k \in Recs("channel")})
                 = Cardinality(topics)
           /\ \A a, b \in topics : a # b => channels[a] # channels[b]
           /\ \A i \in ok : hist[i].id = channels[hist[i].topic]

\* three callers over two topics have returned
C4_Witness ==
    /\ Quiescent
    /\ Cardinality(Succeeded("CreateChannel")) = 3
    /\ Cardinality({hist[i].topic : i \in Succeeded("CreateChannel")}) = 2

\* the ids of the calls of one method that allocated, in commit order
RECURSIVE NewIds(_, _)
NewIds(op, n) ==
    IF n = 0 THEN <<>>
    ELSE IF hist[n].op = op /\ hist[n].new
         THEN Append(NewIds(op, n - 1), hist[n].id)
         ELSE NewIds(op, n - 1)

\* C5: the k-th call that registered a new schema got id k, the k-th call
\* that created a new channel got id k, and each counter stands one past the
\* number of ids handed out: failed and repeated calls consume none.
C5_IdsGapFree ==
    unified \in {"new", "ok"} /\ nextSchemaID > 0 =>
        LET sids == NewIds("RegisterSchema", Len(hist))
            cids == NewIds("CreateChannel", Len(hist))
        IN /\ \A k \in 1..Len(sids) : sids[k] = k
           /\ \A k \in 1..Len(cids) : cids[k] = k
           /\ \A t \in Threads : pc[t] # "rs_bind" => nextSchemaID = Len(sids) + 1
           /\ \A t \in Threads : pc[t] # "cc_bind" => nextChannel = Len(cids) + 1
           /\ nextSchemaID = Cardinality(DOMAIN schemaIDs) + 1
           /\ nextChannel = Cardinality(DOMAIN channels) + 1

\* a failed CreateChannel between two that allocated, and a failed
\* RegisterSchema
C5_Witness ==
    \E i, j, k \in Calls("CreateChannel") :
        /\ i < j /\ j < k
        /\ hist[i].new /\ hist[i].id = 1
        /\ hist[j].err # "nil"
        /\ hist[k].new /\ hist[k].id = 2

\* C6: a name or topic is bound to an id only if the schema or channel
\* record with that id is in the stream, and every id a CreateChannel call
\* returned has its channel record in the stream.
C6_BoundImpliesWritten ==
    /\ \A name \in DOMAIN schemaIDs :
          \E k \in Recs("schema") : /\ stream[k].id = schemaIDs[name]
                                    /\ stream[k].name = name
    /\ \A topic \in DOMAIN channels :
          \E k \in Recs("channel") : /\ stream[k].id = channels[topic]
                                     /\ stream[k].topic = topic
    /\ \A i \in Succeeded("CreateChannel") :
          \E k \in Recs("channel") : /\ stream[k].id = hist[i].id
                                     /\ stream[k].topic = hist[i].topic

\* the codec refused a channel record, and a later call created the channel
C6_Witness ==
    \E i, j \in Calls("CreateChannel") :
        /\ i < j
        /\ hist[i].topic = hist[j].topic
        /\ hist[i].err = "write_failed"
        /\ hist[j].new

\* the constructor has returned the writer and nothing has been called on it
JustOpened ==
    /\ unified = "ok"
    /\ ncalls = 0
    /\ \A i \in 1..Len(hist) : hist[i].caller = "New"

\* the kinds of the records of the stream, in order
Kinds == [i \in 1..Len(stream) |-> stream[i].kind]

\* the schema record of a bound name is in the stream
SchemaWritten(name) ==
    \E k \in Recs("schema") : /\ stream[k].name = name
                              /\ stream[k].id = schemaIDs[name]

\* C7 as stated: right after a successful Open the three built-in schemas
\* (log record, metric sample, plot point) are bound to ids 1, 2 and 3 and
\* their schema records are in the stream.
C7_ThreeBuiltInsBound ==
    JustOpened =>
        /\ {LogSchemaName, MetricSchemaName, PlotSchemaName} \subseteq DOMAIN schemaIDs
        /\ {schemaIDs[n] : n \in {LogSchemaName, MetricSchemaName, PlotSchemaName}}
              = {1, 2, 3}
        /\ \A n \in {LogSchemaName, MetricSchemaName, PlotSchemaName} :
              SchemaWritten(n)

\* C7: right after a successful Open the log-record schema is bound to id 1
\* and the metric-sample schema to id 2, their schema records follow the
\* header in that order, and the plot-point schema is in the registry but
\* bound to no id: no RegisterSchema call by the user was needed for the two.
C7_TwoBuiltInsBound ==
    JustOpened =>
        /\ DOMAIN schemaIDs = {LogSchemaName, MetricSchemaName}
        /\ schemaIDs[LogSchemaName] = 1
        /\ schemaIDs[MetricSchemaName] = 2
        /\ nextSchemaID = 3
        /\ Kinds = <<"header", "schema", "schema">>
        /\ stream[2] = SchemaRec(1, LogSchemaName, registry[LogSchemaName])
        /\ stream[3] = SchemaRec(2, MetricSchemaName, registry[MetricSchemaName])
        /\ PlotSchemaName \in DOMAIN registry

\* a writer whose constructor has just returned it
C7_Witness ==
    /\ JustOpened
    /\ Quiescent
    /\ file = "open"
    /\ Cardinality(Succeeded("RegisterSchema")) = 2

\* the end-to-end run: the log channel, then the metric channel for
\* "cpu.load", then one log record and one metric record, then Close
C8_Scenario ==
    LET cc == Calls("CreateChannel")
        wm == Calls("WriteMessage")
    IN /\ Quiescent
       /\ closed
       /\ \A i \in Calls("RegisterSchema") : hist[i].caller = "New"
       /\ Cardinality(cc) = 2
       /\ \A i \in cc : hist[i].new
       /\ \E i, j \in cc : /\ i < j
                           /\ hist[i].topic = LogTopic(ServiceName)
                           /\ hist[j].topic = MetricTopic(ServiceName, CpuLoad)
       /\ Cardinality(wm) = 2
       /\ \A i \in wm : hist[i].err = "nil"
       /\ \E i, j \in wm : /\ hist[i].caller = "WriteLog"
                           /\ hist[j].caller = "writeMetric"
       /\ \A i \in cc, j \in wm : i < j
       /\ Cardinality(Calls("Close")) = 1
       /\ \A i \in wm, c \in Succeeded("Close") : i < c

\* C8 as stated: after the end-to-end run the log channel has id 4 and the
\* metric channel id 5, and the stream holds exactly 3 schema records, then
\* 2 channel records, then 2 data records.
C8_EndToEndIds45 ==
    C8_Scenario =>
        /\ channels[LogTopic(ServiceName)] = 4
        /\ channels[MetricTopic(ServiceName, CpuLoad)] = 5
        /\ Kinds = <<"header", "schema", "schema", "schema", "channel",
                     "channel", "message", "message", "footer">>

\* C8: after the end-to-end run the log channel has id 1 and the metric
\* channel id 2 (channel ids have their own counter), and the stream holds
\* exactly 2 schema records, then 2 channel records, then 2 data records,
\* each data record on one of the two channels.
C8_EndToEndIds12 ==
    C8_Scenario =>
        /\ channels[LogTopic(ServiceName)] = 1
        /\ channels[MetricTopic(ServiceName, CpuLoad)] = 2
        /\ Kinds = <<"header", "schema", "schema", "channel", "channel",
                     "message", "message", "footer">>
        /\ stream[4].id = 1 /\ stream[4].ref = schemaIDs[LogSchemaName]
        /\ stream[5].id = 2 /\ stream[5].ref = schemaIDs[MetricSchemaName]
        /\ {stream[6].ref, stream[7].ref} = {1, 2}

\* the end-to-end run has completed and the file holds the footer
C8_Witness ==
    /\ C8_Scenario
    /\ file = "closed"
    /\ stream[Len(stream)].kind = "footer"

\* thread t takes the step that follows its lock acquisition at label l
Steps(t, l) == pc[t] = l /\ pc'[t] # l

\* the call that completes in this step, if hist grew by one
Completed == hist'[Len(hist')]

\* C9: CreateChannel for an unbound topic and a schema name with no bound id
\* returns an error, writes no record, leaves the channel-id counter and the
\* channel bindings unchanged, and registers no schema.
C9_UnregisteredSchemaRejected ==
    [][\A t \in Threads :
          (/\ Steps(t, "cc_check")
           /\ frame[t].topic \notin DOMAIN channels
           /\ frame[t].schema \notin DOMAIN schemaIDs)
          => /\ hist' = Append(hist, Completed)
             /\ Completed.op = "CreateChannel"
             /\ Completed.topic = frame[t].topic
             /\ Completed.err = "not_registered"
             /\ pc'[t] = frame[t].cont
             /\ stream' = stream
             /\ channels' = channels
             /\ nextChannel' = nextChannel
             /\ schemaIDs' = schemaIDs
             /\ nextSchemaID' = nextSchemaID
             /\ registry' = registry]_vars

\* such a call has returned; the schema was in the registry all along
C9_Witness ==
    \E i \in Calls("CreateChannel") :
        /\ hist[i].err = "not_registered"
        /\ hist[i].schema = PlotSchemaName
        /\ hist[i].topic \notin DOMAIN channels
        /\ PlotSchemaName \notin DOMAIN schemaIDs
        /\ PlotSchemaName \in DOMAIN registry

\* C10: RegisterSchema for a name neither bound nor in the registry returns
\* the schema-not-found error and leaves the schema bindings, the schema-id
\* counter, the channel bindings and the stream unchanged.
C10_UnknownSchemaRejected ==
    [][\A t \in Threads :
          (/\ Steps(t, "rs_check")
           /\ frame[t].name \notin DOMAIN schemaIDs
           /\ frame[t].name \notin DOMAIN registry)
          => /\ hist' = Append(hist, Completed)
             /\ Completed.op = "RegisterSchema"
             /\ Completed.name = frame[t].name
             /\ Completed.err = "not_found"
             /\ pc'[t] = frame[t].cont
             /\ schemaIDs' = schemaIDs
             /\ nextSchemaID' = nextSchemaID
             /\ channels' = channels
             /\ nextChannel' = nextChannel
             /\ stream' = stream
             /\ registry' = registry]_vars

\* such a call has returned
C10_Witness ==
    \E i \in Calls("RegisterSchema") :
        /\ hist[i].err = "not_found"
        /\ hist[i].name = CustomSchemaName
        /\ hist[i].caller = "RegisterSchema"

\* C11: once a Close call has returned, every later Close call returns
\* success, and the codec's close and the file handle's close are not invoked
\* again: each is invoked at most once in the life of the writer.
C11_CloseOnce ==
    unified = "ok" =>
        /\ \A i, j \in Calls("Close") : i < j => hist[j].err = "nil"
        /\ closeCalls.codec <= 1
        /\ closeCalls.file <= 1

\* C12: the writer does not reject operations after Close. A WriteMessage
\* issued once closed is set is handed to the codec: it returns the codec's
\* result, never a writer-closed error, and a record the codec accepts is in
\* the stream. A RegisterSchema or CreateChannel for a new name or topic goes
\* on to its codec write just as before Close.
C12_NoGuardAfterClose ==
    [][\A t \in Threads :
          /\ (closed /\ Steps(t, "wm_write")) =>
                /\ hist' = Append(hist, Completed)
                /\ Completed.op = "WriteMessage"
                /\ Completed.err \in {"nil", "write_failed"}
                /\ Completed.err = "nil" =>
                      stream' = Append(stream, MessageRec(frame[t].chan, 0,
                                          frame[t].data, frame[t].mname))
          /\ (/\ closed /\ Steps(t, "rs_check")
              /\ frame[t].name \notin DOMAIN schemaIDs
              /\ frame[t].name \in DOMAIN registry) => pc'[t] = "rs_write"
          /\ (/\ closed /\ Steps(t, "cc_check")
              /\ frame[t].topic \notin DOMAIN channels
              /\ frame[t].schema \in DOMAIN schemaIDs) => pc'[t] = "cc_write"
          /\ (closed /\ Steps(t, "rs_write")) =>
                \/ stream' = Append(stream, SchemaRec(frame[t].id, frame[t].name,
                                                      frame[t].def))
                \/ /\ hist' = Append(hist, Completed)
                   /\ Completed.err = "write_failed"
          /\ (closed /\ Steps(t, "cc_write")) =>
                \/ stream' = Append(stream, ChannelRec(frame[t].id, frame[t].i,
                                             frame[t].topic, frame[t].meta))
                \/ /\ hist' = Append(hist, Completed)
                   /\ Completed.err = "write_failed"]_vars

\* a Close returned success and a WriteMessage after it returned success too
C12_Witness ==
    \E i \in Succeeded("Close"), j \in Succeeded("WriteMessage") :
        /\ i < j
        /\ closed
        /\ hist[j].caller = "WriteMessage"

\* thread t is inside a writer method, past its Lock and before its Unlock
InSection(t) ==
    pc[t] \in {"rs_check", "rs_write", "rs_bind", "cc_check", "cc_write",
               "cc_bind", "wm_write", "cl_body", "ic_body"}

\* C13: RegisterSchema, CreateChannel, WriteMessage and Close exclude each
\* other for their whole duration: at most one thread is between the Lock and
\* the Unlock of any of them, and it is the holder of the mutex, so no other
\* call runs between a call's stream write and its map update.
C13_MutualExclusion ==
    \A t, u \in Threads :
        /\ InSection(t) => mu = t
        /\ (InSection(t) /\ InSection(u)) => t = u

\* one call stands between its stream write and its map update while
\* another waits for the mutex
C13_Witness ==
    \E t, u \in Threads :
        /\ pc[t] \in {"rs_bind", "cc_bind"}
        /\ pc[u] = "rs_lock"

\* C14: the registry update of AddCustomSchema runs inside the writer's
\* exclusive section: while one thread is about to store into the registry's
\* table, no other thread is about to read it (RegisterSchema's Get) or to
\* store into it (another AddCustomSchema).
C14_RegistryExclusive ==
    \A t \in Threads :
        pc[t] = "acs_register" =>
            \A u \in Threads \ {t} : pc[u] \notin {"rs_check", "acs_register"}

\* a completed call that put a record into the stream
IsWrite(h) ==
    h.new /\ h.op \in {"RegisterSchema", "CreateChannel", "WriteMessage"}

\* a schema, channel or data record
IsPayload(r) == r.kind \in {"schema", "channel", "message"}

\* the record is the one the completed call h wrote
WrittenBy(r, h) ==
    \/ /\ h.op = "RegisterSchema"
       /\ r.kind = "schema" /\ r.id = h.id /\ r.name = h.name
    \/ /\ h.op = "CreateChannel"
       /\ r.kind = "channel" /\ r.id = h.id /\ r.topic = h.topic
    \/ /\ h.op = "WriteMessage"
       /\ r.kind = "message" /\ r.ref = h.id

\* C15: the schema, channel and data records are in the stream in the order
\* in which their calls held the writer's exclusive section: the k-th record
\* is the record of the k-th call that, holding the mutex, wrote one; a
\* record beyond those belongs to the one call still inside the section.
C15_StreamInLockOrder ==
    LET W == SelectSeq(hist, IsWrite)
        R == SelectSeq(stream, IsPayload)
    IN /\ Len(W) <= Len(R)
       /\ Len(R) <= Len(W) + 1
       /\ \A k \in 1..Len(W) : WrittenBy(R[k], W[k])
       /\ Len(R) = Len(W) + 1 =>
             \E t \in Threads : /\ mu = t
                                /\ pc[t] \in {"rs_bind", "cc_bind"}
                                /\ R[Len(R)].id = frame[t].id

\* records of all three kinds written by calls of different producers: a
\* schema registered by a caller, the channel on it, and adapter records
C15_Witness ==
    LET W == SelectSeq(hist, IsWrite)
    IN /\ \E k \in 1..Len(W) : W[k].op = "RegisterSchema" /\ W[k].caller # "New"
       /\ \E k \in 1..Len(W) : W[k].op = "CreateChannel" /\ W[k].topic = <<"t">>
       /\ \E k \in 1..Len(W) : W[k].op = "WriteMessage"

\* the codec refuses the record of the call thread t is making at label l
WriteFails(t, l) == Steps(t, l) /\ stream' = stream

\* C16 as stated: when the stream write inside RegisterSchema or
\* CreateChannel fails, the error is returned and the binding of that call
\* has nevertheless been recorded.
C16_BindingAheadOfStream ==
    [][\A t \in Threads :
          /\ WriteFails(t, "rs_write") =>
                /\ Completed.err = "write_failed"
                /\ frame[t].name \in DOMAIN schemaIDs'
          /\ WriteFails(t, "cc_write") =>
                /\ Completed.err = "write_failed"
                /\ frame[t].topic \in DOMAIN channels']_vars

\* C16: when the stream write inside RegisterSchema or CreateChannel fails,
\* the error is returned and no binding is recorded for that call: the
\* bindings and both id counters are as before the call, so the in-memory
\* state is never ahead of the stream.
C16_FailedWriteBindsNothing ==
    [][\A t \in Threads :
          (WriteFails(t, "rs_write") \/ WriteFails(t, "cc_write")) =>
              /\ hist' = Append(hist, Completed)
              /\ Completed.err = "write_failed"
              /\ Completed.id = 0
              /\ pc'[t] = frame[t].cont
              /\ mu' = NoThread
              /\ schemaIDs' = schemaIDs
              /\ nextSchemaID' = nextSchemaID
              /\ channels' = channels
              /\ nextChannel' = nextChannel]_vars

\* the codec refused the record of a CreateChannel, the call has returned,
\* and the topic is unbound and the channel counter still at its first id
C16_Witness ==
    /\ Quiescent
    /\ nextChannel = 1
    /\ \E i \in Calls("CreateChannel") :
          /\ hist[i].err = "write_failed"
          /\ hist[i].topic \notin DOMAIN channels

\* C17: Open returns a writer or an error, never both. With an empty path it
\* fails before any file is created; whenever it fails, no file handle is
\* left open, and a file that was created has been closed, once, before the
\* error is returned; when it succeeds the writer holds the open file.
C17_OpenAllOrNothing ==
    [][\A t \in Threads :
          /\ (Steps(t, "new_open") /\ frame[t].path = "") =>
                /\ unified' = "err"
                /\ file' = "none"
                /\ stream' = stream
                /\ closeCalls' = closeCalls
          /\ (unified = "new" /\ unified' = "err") =>
                /\ file' \in {"none", "closed"}
                /\ file = "open" => file' = "closed"
                /\ file' = "closed" => closeCalls'.file = closeCalls.file + 1
                /\ file' = "none" => closeCalls' = closeCalls
                /\ pc'[t] = "idle" \/ pc'[t] = pc[t]
          /\ (unified = "new" /\ unified' = "ok") =>
                /\ file' = "open"
                /\ filePath' # ""
                /\ closeCalls'.file = 0]_vars

\* Open failed while registering the second built-in schema, after the file,
\* the header and the first schema record were written, and the file is closed
C17_Witness ==
    /\ unified = "err"
    /\ file = "closed"
    /\ Len(stream) = 2
    /\ stream[2].kind = "schema"

\* C18: a schema name's id and a topic's channel id, once set, are never
\* changed and never removed, in any later step of the writer, Close and the
\* calls after it included.
C18_BindingsPermanent ==
    [][(unified = "new" \/ unified = "ok") =>
          /\ \A name \in DOMAIN schemaIDs :
                /\ name \in DOMAIN schemaIDs'
                /\ schemaIDs'[name] = schemaIDs[name]
          /\ \A topic \in DOMAIN channels :
                /\ topic \in DOMAIN channels'
                /\ channels'[topic] = channels[topic]]_vars

\* a topic bound before Close was created again after it, by a call that
\* returned the id bound before
C18_Witness ==
    /\ closed
    /\ \E c \in Succeeded("Close"), i \in Succeeded("CreateChannel") :
          /\ c < i
          /\ ~hist[i].new
          /\ channels[hist[i].topic] = hist[i].id

\* C19: metric channels are per metric name: two metric names written
\* through the adapter are on two distinct channels.
C19_ChannelPerMetricName ==
    \A n1, n2 \in DOMAIN mchannels :
        n1 # n2 => mchannels[n1] # mchannels[n2]

\* "/metrics/" and "/logs/"
MetricsPrefix == <<"/", "m", "e", "t", "r", "i", "c", "s", "/">>
LogsPrefix == <<"/", "l", "o", "g", "s", "/">>

\* C20: the metric topic of name n under service s is "/metrics/", then s,
\* then "/", then n with every "." replaced by "/" and every other character
\* kept; llm.cache.hit_rate under svc gives /metrics/svc/llm/cache/hit_rate;
\* the log topic is "/logs/" followed by s.
C20_Topics ==
    \A t \in Threads :
        LET s == frame[t].service
            n == frame[t].mname
            out == frame[t].topic
            off == Len(MetricsPrefix) + Len(s) + 1
        IN /\ pc[t] = "log_topic" =>
                 /\ Len(out) = Len(LogsPrefix) + Len(s)
                 /\ SubSeq(out, 1, Len(LogsPrefix)) = LogsPrefix
                 /\ SubSeq(out, Len(LogsPrefix) + 1, Len(out)) = s
           /\ pc[t] = "metric_topic" =>
                 /\ Len(out) = off + Len(n)
                 /\ SubSeq(out, 1, Len(MetricsPrefix)) = MetricsPrefix
                 /\ SubSeq(out, Len(MetricsPrefix) + 1, off - 1) = s
                 /\ out[off] = "/"
                 /\ \A i \in 1..Len(n) :
                       out[off + i] = IF n[i] = "." THEN "/" ELSE n[i]
                 /\ (s = ServiceName /\ n = LlmCacheHitRate) =>
                       out = <<"/", "m", "e", "t", "r", "i", "c", "s", "/",
                               "s", "v", "c", "/", "l", "l", "m", "/", "c",
                               "a", "c", "h", "e", "/", "h", "i", "t", "_",
                               "r", "a", "t", "e">>

\* the topic of llm.cache.hit_rate under svc has been derived
C20_Witness ==
    \E t \in Threads :
        /\ pc[t] = "metric_topic"
        /\ frame[t].service = ServiceName
        /\ frame[t].mname = LlmCacheHitRate

\* the CreateChannel calls the log adapter has made
LogAdapterCreates ==
    {i \in Calls("CreateChannel") :
        hist[i].caller = "NewLogMcapWriter" \/ hist[i].caller = "WriteLog"}

\* C21: the log adapter makes one CreateChannel call in its whole life, for
\* the topic /logs/{service} with the log schema; the id that call returned is
\* the adapter's channel id, and every log record in the stream carries it.
C21_LogChannelResolvedOnce ==
    /\ Cardinality(LogAdapterCreates) <= 1
    /\ \A i \in LogAdapterCreates :
          /\ hist[i].topic = LogTopic(ServiceName)
          /\ hist[i].schema = LogSchemaName
    /\ logWriter.exists =>
          \E i \in LogAdapterCreates :
              /\ hist[i].err = "nil"
              /\ hist[i].id = logWriter.channelID
    /\ \A r \in Recs("message") :
          stream[r].data = "log" =>
              /\ logWriter.exists
              /\ stream[r].ref = logWriter.channelID

\* two log records are in the stream and channels were created besides the
\* adapter's
C21_Witness ==
    /\ Cardinality({r \in Recs("message") : stream[r].data = "log"}) = 2
    /\ Cardinality(LogAdapterCreates) = 1
    /\ Cardinality(Recs("channel")) = 2

\* the topics the metric adapter can ask for
MetricTopics == {MetricTopic(ServiceName, n) : n \in MetricNames}

\* topic gets its channel in this step
Resolves(topic) == topic \notin DOMAIN channels /\ topic \in DOMAIN channels'

\* an adapter that is in Writing stays there with the ids it holds
WritingPersists ==
    /\ logWriter.exists => logWriter' = logWriter
    /\ \A n \in DOMAIN mchannels :
          n \in DOMAIN mchannels' /\ mchannels'[n] = mchannels[n]

\* C22 as stated: both adapters come out of their constructors without a
\* channel, an adapter's channel is created by a write of that adapter, and
\* an adapter in Writing stays there.
C22_AdaptersResolveLazily ==
    [][/\ (~logWriter.exists /\ logWriter'.exists) =>
              LogTopic(ServiceName) \notin DOMAIN channels'
       /\ (~metricWriter /\ metricWriter') =>
              MetricTopics \cap DOMAIN channels' = {}
       /\ Resolves(LogTopic(ServiceName)) =>
              \E t \in Threads : frame[t].op = "WriteLog"
       /\ \A topic \in MetricTopics :
              Resolves(topic) => \E t \in Threads : frame[t].op = "writeMetric"
       /\ WritingPersists]_vars

\* C22 amended: the metric adapter is lazy, its constructor creates nothing
\* and a name's channel is created by the first write of that name, cached,
\* and reused by every later write; the log adapter resolves its channel in
\* its constructor and is handed out already holding the id; an adapter in
\* Writing stays there.
C22_MetricLazyLogEager ==
    [][/\ (~logWriter.exists /\ logWriter'.exists) =>
              /\ LogTopic(ServiceName) \in DOMAIN channels
              /\ logWriter'.channelID = channels[LogTopic(ServiceName)]
       /\ Resolves(LogTopic(ServiceName)) =>
              \E t \in Threads : frame[t].op = "NewLogMcapWriter"
       /\ (~metricWriter /\ metricWriter') =>
              /\ mchannels' = EmptyMap
              /\ MetricTopics \cap DOMAIN channels' = {}
       /\ \A topic \in MetricTopics :
              Resolves(topic) =>
                  \E t \in Threads : /\ frame[t].op = "writeMetric"
                                     /\ frame[t].topic = topic
                                     /\ frame[t].mname \notin DOMAIN mchannels
       /\ \A t \in Threads :
              /\ (Steps(t, "gc_ret") /\ frame[t].err = "nil") =>
                    /\ frame[t].topic \in DOMAIN channels
                    /\ frame[t].mname \in DOMAIN mchannels'
                    /\ mchannels'[frame[t].mname] = channels[frame[t].topic]
              /\ (Steps(t, "gc_check") /\ frame[t].mname \in DOMAIN mchannels) =>
                    /\ pc'[t] = "wm_lock"
                    /\ frame'[t].chan = mchannels[frame[t].mname]
       /\ WritingPersists]_vars

\* the log adapter exists and the metric adapter has written one name twice:
\* the first write created the channel, the second found it in the cache
C22_Witness ==
    /\ logWriter.exists
    /\ CpuLoad \in DOMAIN mchannels
    /\ Cardinality({r \in Recs("message") :
                       stream[r].data = "metric" /\ stream[r].mname = CpuLoad}) = 2
    /\ Cardinality(Recs("channel")) = 2

\* the data records of metric n in the stream
MetricRecs(n) ==
    {r \in Recs("message") : stream[r].data = "metric" /\ stream[r].mname = n}

\* C23: whatever the interleaving of the threads writing one metric name,
\* its topic has exactly one channel record and every data record of that
\* name, from any thread, carries that channel's id.
C23_RacedNameOneChannel ==
    \A n \in MetricNames :
        LET topic == MetricTopic(ServiceName, n)
        IN MetricRecs(n) # {} =>
              /\ topic \in DOMAIN channels
              /\ Cardinality({c \in Recs("channel") : stream[c].topic = topic}) = 1
              /\ \A r \in MetricRecs(n) : stream[r].ref = channels[topic]

\* two threads are inside writeMetric for cpu.load at once, the name was not
\* cached when the first of them came, and one of them has written its record
C23_Witness ==
    /\ \A t \in Threads : /\ frame[t].op = "writeMetric"
                          /\ frame[t].mname = CpuLoad
    /\ \E t \in Threads : pc[t] = "wm_write"
    /\ \E i \in Succeeded("CreateChannel") :
          hist[i].caller = "writeMetric" /\ hist[i].new
    /\ Cardinality(MetricRecs(CpuLoad)) = 1

\* the Close methods that do not belong to the writer's owner
AdapterCloses ==
    {"LogMcapWriter.Close", "MetricMcapWriter.Close", "Metrics.Close",
     "Logger.Close"}

\* the writer is as it was: flag, file, bindings, counters and stream
WriterUntouched ==
    /\ closed' = closed
    /\ stream' = stream
    /\ UNCHANGED <<fileVars, schemaVars, channelVars>>

\* C24: a Close of an adapter or of Logger or Metrics returns nil and leaves
\* the writer's closed flag, file, bindings and stream as they were, in every
\* step it takes; the closed flag changes only in a Close call on the writer
\* made by its owner.
C24_AdaptersNeverClose ==
    [][/\ \A t \in Threads :
             (frame[t].op \in AdapterCloses /\ pc'[t] # pc[t]) => WriterUntouched
       /\ (Len(hist') = Len(hist) + 1 /\ Completed.op \in AdapterCloses) =>
             /\ Completed.err = "nil"
             /\ WriterUntouched
       /\ closed' # closed =>
             /\ Len(hist') = Len(hist) + 1
             /\ Completed.op = "Close"
             /\ Completed.caller = "Close" \/ Completed.caller = "Pulse.Close"]_vars

\* Logger.Close and LogMcapWriter.Close have returned on a writer that holds
\* a log record, and the writer is still open
C24_Witness ==
    /\ \E i \in Calls("Logger.Close") : hist[i].caller = "Logger.Close"
    /\ Calls("LogMcapWriter.Close") # {}
    /\ \E r \in Recs("message") : stream[r].data = "log"
    /\ ~closed
    /\ file = "open"

\* the completed calls of kind op that Pulse.Close made
ByPulseClose(op) == {i \in Calls(op) : hist[i].caller = "Pulse.Close"}

\* the order of the calls of the shutdown sequence
ShutdownOrder ==
    /\ \A c \in ByPulseClose("Close") :
          \E p \in ByPulseClose("Profiler.Stop") : p < c
    /\ \A w \in ByPulseClose("WriteMessage"), c \in ByPulseClose("Close") : w < c
    /\ \A a \in ByPulseClose("Metrics.Close") \cup ByPulseClose("Logger.Close")
                   \cup ByPulseClose("Tracing.Close") :
          \E c \in ByPulseClose("Close") : c < a

\* C25: in Pulse.Close the profiler is stopped before the writer's Close is
\* called, the writer's Close has returned before Metrics.Close, Logger.Close
\* and Tracing.Close are called, and once the writer's Close has returned no
\* step of the shutdown sequence appends to the stream.
C25_ShutdownOrder ==
    /\ []ShutdownOrder
    /\ [][\A t \in Threads :
             (/\ frame[t].op = "Pulse.Close"
              /\ ByPulseClose("Close") # {}
              /\ pc'[t] # pc[t]) => stream' = stream]_vars

\* Pulse.Close has returned: the profiler failed to stop, the warning about
\* it went into the stream as a log record, and the writer was closed
C25_Witness ==
    /\ Calls("Pulse.Close") # {}
    /\ \E p \in ByPulseClose("Profiler.Stop") : hist[p].err = "stop_failed"
    /\ \E w \in ByPulseClose("WriteMessage") : hist[w].err = "nil"
    /\ ByPulseClose("Logger.Close") # {}
    /\ closed

\* thread t is inside a call
Running(t) == pc[t] # "idle"

\* the step takes the adapter lock for t
TakesAdapterLock(t) == mmu # t /\ mmu' = t

\* the step takes the writer lock for t
TakesWriterLock(t) == mu # t /\ mu' = t

\* C26: under any interleaving every call that has begun returns, with
\* success or an error: the calls of a run being finitely many, from some
\* point on no thread is inside a call; a thread that takes the adapter lock
\* does not hold the writer lock, so the adapter lock always comes first; and
\* in no reachable state are the threads inside a call all blocked.
C26_CallsTerminate ==
    /\ <>[](\A t \in Threads : ~Running(t))
    /\ [][\A t \in Threads : TakesAdapterLock(t) => mu # t]_vars
    /\ []((\E t \in Threads : Running(t)) =>
              \E t \in Threads : Running(t) /\ ENABLED NextLocksOf(t))

\* one thread holds the adapter lock and waits for the writer lock, which
\* the other thread holds
C26_Witness ==
    \E t, o \in Threads :
        /\ mmu = t
        /\ pc[t] = "cc_lock"
        /\ mu = o
        /\ o # t

\* the failed writer calls made for events of producer p
FailedFor(p) ==
    {i \in Calls("CreateChannel") \cup Calls("WriteMessage") :
        hist[i].caller = p /\ hist[i].err # "nil"}

\* the events of producer p that came back with an error
ReturnedError(p) == {i \in Calls(p) : hist[i].err # "nil"}

\* the events of producer p that hold an error they have yet to return
HoldingError(p) ==
    {t \in Threads : frame[t].op = p /\ frame[t].err # "nil"}

\* C27: a failed channel creation or message write is handed to the
\* producer whose event caused it, and the producer goes on: each such
\* failure is the return value of one Record call, or the error one
\* Logger.log call received from WriteLog and reported, or is on its way
\* there; no failure is lost and none ends the run.
C27_EventErrorsReturned ==
    /\ Cardinality(FailedFor("Record")) =
          Cardinality(ReturnedError("Record")) + Cardinality(HoldingError("Record"))
    /\ Cardinality(FailedFor("Logger.log")) =
          Cardinality(ReturnedError("Logger.log"))
              + Cardinality(HoldingError("Logger.log"))
    /\ \A i \in ReturnedError("Record") \cup ReturnedError("Logger.log") :
          \E j \in FailedFor(hist[i].op) : j < i /\ hist[j].err = hist[i].err

\* a Record call returned the error of its failed write, and a log event
\* after it was written
C27_Witness ==
    \E i \in ReturnedError("Record") :
        \E j \in Calls("Logger.log") :
            /\ i < j
            /\ hist[j].err = "nil"
            /\ hist[j].id = 1

\* the three built-in schema names
BuiltInNames == {LogSchemaName, MetricSchemaName, PlotSchemaName}

\* the Register calls for name among the first n calls
Registered(name, n) ==
    {j \in 1..n : hist[j].op = "Register" /\ hist[j].name = name}

\* the greatest element of a non-empty set of numbers
Latest(S) == CHOOSE j \in S : \A k \in S : k <= j

\* the name -> definition map after the first n calls: the built-ins,
\* overridden and extended by the latest Register of each name
MapAfter(n) ==
    [name \in BuiltInNames \cup {hist[j].name : j \in Calls("Register") \cap 1..n} |->
        IF Registered(name, n) # {}
        THEN hist[Latest(Registered(name, n))].schema
        ELSE NewSchemaRegistry[name]]

\* C28: the registry is the map that starts as the three built-ins and that
\* each Register(name, schema) updates at name: Get(name) returns that map's
\* value and true when name is in it, the zero value and false otherwise;
\* List returns its names; and Get and List leave it as it is.
C28_RegistryIsMap ==
    /\ registry = MapAfter(Len(hist))
    /\ \A i \in Calls("Get") :
          LET m == MapAfter(i - 1)
              name == hist[i].name
          IN /\ hist[i].new = (name \in DOMAIN m)
             /\ hist[i].schema = IF name \in DOMAIN m THEN m[name] ELSE ""
    /\ \A i \in Calls("List") : hist[i].meta = DOMAIN MapAfter(i - 1)

\* a name was registered twice with two definitions and Get returned the
\* second
C28_Witness ==
    /\ Len(hist) = 3
    /\ hist[1].op = "Register" /\ hist[2].op = "Register"
    /\ hist[1].name = CustomSchemaName /\ hist[2].name = CustomSchemaName
    /\ hist[1].schema # hist[2].schema
    /\ hist[3].op = "Get" /\ hist[3].name = CustomSchemaName
    /\ hist[3].new
    /\ hist[3].schema = hist[2].schema

\* the channel ids CreateChannel has handed out
IssuedChannelIDs == {channels[topic] : topic \in DOMAIN channels}

\* C29: WriteMessage does not look at its channel id: whether or not the
\* id was ever returned by CreateChannel, the call ends with the codec's
\* result, nil or the codec's error, and each call that returned nil has put
\* one data record with exactly that id into the stream.
C29_ChannelIdNotValidated ==
    /\ \A i \in Calls("WriteMessage") :
          hist[i].err = "nil" \/ hist[i].err = "write_failed"
    /\ Cardinality(Calls("WriteMessage") \ Succeeded("WriteMessage")) <= faults
    /\ \A id \in ChannelIDs :
          Cardinality({r \in Recs("message") : stream[r].ref = id}) =
          Cardinality({i \in Succeeded("WriteMessage") : hist[i].id = id})

\* two data records are in the stream, one of them with id 2, while at most
\* one channel exists: an id that no CreateChannel returned went through
C29_Witness ==
    /\ \E r \in Recs("message") : stream[r].ref \notin IssuedChannelIDs
    /\ \E r \in Recs("message") : stream[r].ref = 2
    /\ Cardinality(Recs("message")) = 2
    /\ Cardinality(Recs("channel")) <= 1

\* the channel records with this id
ChannelRecsOf(id) == {c \in Recs("channel") : stream[c].id = id}

\* C30 as stated: every CreateChannel that returned an id names a bound
\* schema, and the channel record with that id references that schema's id,
\* also when the topic was bound before the call.
C30_RecordHasCallersSchema ==
    \A i \in Succeeded("CreateChannel") :
        /\ hist[i].schema \in DOMAIN schemaIDs
        /\ \E c \in ChannelRecsOf(hist[i].id) :
              stream[c].ref = schemaIDs[hist[i].schema]

\* C30 amended: a CreateChannel that returned an id has exactly one channel
\* record with that id, for its topic, and the record references the schema
\* named by the call that created the channel: the call's own schemaName
\* when it created it, the first call's when the topic was already bound.
C30_RecordHasCreatorsSchema ==
    \A i \in Succeeded("CreateChannel") :
        /\ Cardinality(ChannelRecsOf(hist[i].id)) = 1
        /\ \A c \in ChannelRecsOf(hist[i].id) :
              /\ stream[c].topic = hist[i].topic
              /\ \E j \in Succeeded("CreateChannel") :
                    /\ j <= i
                    /\ hist[j].new
                    /\ hist[j].topic = hist[i].topic
                    /\ hist[j].id = hist[i].id
                    /\ hist[j].schema \in DOMAIN schemaIDs
                    /\ stream[c].ref = schemaIDs[hist[j].schema]
              /\ hist[i].new =>
                    /\ hist[i].schema \in DOMAIN schemaIDs
                    /\ stream[c].ref = schemaIDs[hist[i].schema]

\* a topic created with the log schema was asked for again with the Plot
\* schema, and the call returned the existing id
C30_Witness ==
    \E i, j \in Succeeded("CreateChannel") :
        /\ i < j
        /\ hist[i].new /\ ~hist[j].new
        /\ hist[i].topic = hist[j].topic
        /\ hist[i].schema = LogSchemaName
        /\ hist[j].schema = PlotSchemaName
        /\ hist[i].id = hist[j].id

\* C31: every bound schema name has a schema record in the stream whose
\* definition is the one the registry holds for that name now.
C31_RegistryMatchesStream ==
    \A name \in DOMAIN schemaIDs :
        /\ name \in DOMAIN registry
        /\ \E r \in Recs("schema") :
              /\ stream[r].name = name
              /\ stream[r].id = schemaIDs[name]
              /\ stream[r].data = registry[name]

\* C32: no WriteMessage made for a Logger.log call runs on the writer after
\* a Close of the writer has completed.
C32_NoLogWriteAfterClose ==
    \A w \in Calls("WriteMessage"), c \in Succeeded("Close") :
        hist[w].caller = "Logger.log" => w < c

\* C33: the id counters do not wrap: every id handed out, to a schema name
\* or to a topic, is in 1..65535, and no two names and no two topics share
\* an id, however many have been created.
C33_CountersNeverWrap ==
    /\ \A name \in DOMAIN schemaIDs : schemaIDs[name] \in 1..(Uint16 - 1)
    /\ Cardinality({schemaIDs[name] : name \in DOMAIN schemaIDs}) =
          Cardinality(DOMAIN schemaIDs)
    /\ \A topic \in FreshTopics \cap DOMAIN channels :
          channels[topic] \in 1..(Uint16 - 1)
    /\ \A topic \in FreshTopics \cap DOMAIN channels :
          \A other \in DOMAIN channels :
              other # topic => channels[other] # channels[topic]

\* C34: the metric adapter's cache agrees with the writer: every cached
\* metric name holds the id the writer binds to the topic derived from that
\* name, and every metric data record carries the id of that channel.
C34_CacheCoherent ==
    /\ \A n \in DOMAIN mchannels :
          LET topic == MetricTopic(ServiceName, n)
          IN /\ topic \in DOMAIN channels
             /\ mchannels[n] = channels[topic]
    /\ \A n \in MetricNames :
          \A r \in MetricRecs(n) :
              \E c \in Recs("channel") :
                  /\ c < r
                  /\ stream[c].id = stream[r].ref
                  /\ stream[c].topic = MetricTopic(ServiceName, n)

\* both metric names are cached, the second one through the channel the
\* first one created, and a record of the second name is in the stream
C34_Witness ==
    /\ DOMAIN mchannels = MetricNames
    /\ Cardinality({i \in Succeeded("CreateChannel") :
                       hist[i].caller = "writeMetric" /\ hist[i].new}) = 1
    /\ \E n \in MetricNames :
          /\ MetricRecs(n) # {}
          /\ \E i \in Succeeded("CreateChannel") :
                /\ hist[i].caller = "writeMetric"
                /\ ~hist[i].new
                /\ hist[i].topic = MetricTopic(ServiceName, n)

\* the successful CreateMetricChannel calls the adapter made for metric n
MetricChannelCalls(n) ==
    {i \in Succeeded("CreateChannel") :
        /\ hist[i].caller \in {"writeMetric", "Record"}
        /\ <<"metric_name", n>> \in hist[i].meta}

\* C35: for each metric name the adapter makes at most one successful
\* CreateMetricChannel call, however the threads writing that name for the
\* first time interleave.
C35_OneCreationPerName ==
    \A n \in MetricNames : Cardinality(MetricChannelCalls(n)) <= 1

\* two threads are writing cpu.load at once before any record of it is in
\* the stream: one created the channel, the other found it in the cache
C35_Witness ==
    /\ \A t \in Threads : /\ frame[t].op = "writeMetric"
                          /\ frame[t].mname = CpuLoad
                          /\ pc[t] \in {"wm_lock", "wm_write"}
    /\ MetricRecs(CpuLoad) = {}
    /\ Cardinality(MetricChannelCalls(CpuLoad)) = 1

\* the CreateMetricChannel calls the adapter made for metric n that failed
FailedMetricChannelCalls(n) ==
    {i \in Calls("CreateChannel") :
        /\ hist[i].caller \in {"writeMetric", "Record"}
        /\ <<"metric_name", n>> \in hist[i].meta
        /\ hist[i].err # "nil"}

\* the Record calls made so far on the adapter, finished or not
RecordCalls ==
    Cardinality({i \in Calls("Record") : hist[i].caller = "Record"})
        + Cardinality({t \in Threads : frame[t].op = "Record"})

\* C36: a metric write whose channel resolution failed appends no data
\* record, returns the error and caches nothing: a name is cached only after
\* a successful creation, every failed creation for a name comes before the
\* successful one, so the name was looked up and created again, each failed
\* creation is the error of one Record call, and the calls that failed this
\* way left no data record.
C36_FailedResolution ==
    /\ \A n \in MetricNames :
          /\ n \in DOMAIN mchannels => MetricChannelCalls(n) # {}
          /\ \A i \in FailedMetricChannelCalls(n) :
                /\ \A j \in MetricChannelCalls(n) : i < j
                /\ \/ \E j \in ReturnedError("Record") :
                         j > i /\ hist[j].err = hist[i].err
                   \/ \E t \in HoldingError("Record") :
                         frame[t].err = hist[i].err
    /\ Cardinality(MetricRecs(CpuLoad))
          + Cardinality(FailedMetricChannelCalls(CpuLoad))
          <= RecordCalls

\* a Record of cpu.load failed at the channel creation and returned the
\* error, a later Record of it created the channel and wrote its record
C36_Witness ==
    \E i \in FailedMetricChannelCalls(CpuLoad) :
        \E j \in MetricChannelCalls(CpuLoad) :
            /\ i < j
            /\ \E k \in ReturnedError("Record") : i < k /\ k < j
            /\ Cardinality(MetricRecs(CpuLoad)) = 1
            /\ CpuLoad \in DOMAIN mchannels

\* thread t's IsClosed call returns in this step
IsClosedReturns(t) == pc[t] = "ic_body" /\ pc'[t] # "ic_body"

\* no Close call has been made on the writer
NoCloseCalled ==
    /\ Calls("Close") = {}
    /\ \A t \in Threads : frame[t].op # "Close"

\* C37: the closed flag is monotonic: an IsClosed call that returns before
\* any Close call was made returns false, one that returns true does so
\* with the flag set, the flag once set stays set, and with the flag set
\* every IsClosed call returns true, whatever ran in between.
C37_ClosedMonotonic ==
    [][/\ closed => closed'
       /\ \A t \in Threads :
             IsClosedReturns(t) =>
                /\ NoCloseCalled => frame'[t].rv = 0
                /\ frame'[t].rv = 1 => closed'
                /\ closed => frame'[t].rv = 1]_vars

\* after a successful Close a first Logger.log found the writer closed, and
\* a second one is being told the same
C37_Witness ==
    /\ Succeeded("Close") # {}
    /\ \E i \in Calls("Logger.log") :
          /\ hist[i].id = 0
          /\ \E c \in Succeeded("Close") : c < i
    /\ \E t \in Threads : /\ frame[t].op = "Logger.log"
                          /\ pc[t] = frame[t].cont
                          /\ frame[t].rv = 1

\* thread t takes a step of its call of method op
StepOf(t, op) ==
    /\ pc'[t] # pc[t] \/ frame'[t] # frame[t]
    /\ frame[t].op = op \/ frame'[t].op = op

\* a GetFilePath call: it has no step but the call itself
GetFilePathStep == ncalls' # ncalls /\ pc' = pc /\ frame' = frame

\* C38: the operations that allocate nothing leave the allocation state
\* alone: no step of WriteMessage, IsClosed or GetFilePath changes the schema
\* bindings, the channel bindings, either id counter or the closed flag, and
\* no step of CreateChannel changes the schema bindings or the schema-id
\* counter.
C38_FrameEffects ==
    [][/\ \A t \in Threads :
             /\ StepOf(t, "WriteMessage") \/ StepOf(t, "IsClosed") =>
                   UNCHANGED <<schemaVars, channelVars, closed>>
             /\ StepOf(t, "CreateChannel") => UNCHANGED schemaVars
       /\ GetFilePathStep => UNCHANGED <<schemaVars, channelVars, closed>>]_vars

\* a channel was created and a message written, both with the bindings
\* they found, and a thread is inside IsClosed
C38_Witness ==
    /\ Succeeded("WriteMessage") # {}
    /\ \E i \in Succeeded("CreateChannel") : hist[i].new
    /\ \E t \in Threads : frame[t].op = "IsClosed" /\ pc[t] = "ic_body"

\* the data records written to channel id
RecordsOn(id) == {r \in Recs("message") : stream[r].ref = id}

\* C39: every data record in the stream carries sequence number 0, on every
\* channel and however many records the channel already holds.
C39_SequenceZero ==
    \A r \in Recs("message") : stream[r].seq = 0

\* two records on the log channel and one on a metric channel
C39_Witness ==
    /\ logWriter.exists
    /\ Cardinality(RecordsOn(logWriter.channelID)) = 2
    /\ \E n \in DOMAIN mchannels :
          /\ mchannels[n] # logWriter.channelID
          /\ RecordsOn(mchannels[n]) # {}

\* word w in upper case, in lower case, and with its first letter in upper
\* case and the others in lower case
UpperCase(w) ==
    [k \in 1..Len(w) |->
        IF \E i \in 1..26 : w[k] = LowerLetters[i]
        THEN UpperLetters[CHOOSE i \in 1..26 : w[k] = LowerLetters[i]]
        ELSE w[k]]

LowerCase(w) ==
    [k \in 1..Len(w) |->
        IF \E i \in 1..26 : w[k] = UpperLetters[i]
        THEN LowerLetters[CHOOSE i \in 1..26 : w[k] = UpperLetters[i]]
        ELSE w[k]]

Capitalised(w) ==
    [k \in 1..Len(w) |-> IF k = 1 THEN UpperCase(w)[k] ELSE LowerCase(w)[k]]

Spellings(w) == {UpperCase(w), LowerCase(w), Capitalised(w)}

\* the names of the severities, with the two names of the warning level
SeverityNames ==
    [v \in 1..5 |->
        CASE v = LogLevelDebug -> {<<"d", "e", "b", "u", "g">>}
          [] v = LogLevelInfo -> {<<"i", "n", "f", "o">>}
          [] v = LogLevelWarning -> {<<"w", "a", "r", "n">>,
                                     <<"w", "a", "r", "n", "i", "n", "g">>}
          [] v = LogLevelError -> {<<"e", "r", "r", "o", "r">>}
          [] v = LogLevelFatal -> {<<"f", "a", "t", "a", "l">>}]

\* the spellings that name severity v
SpellingsOf(v) == UNION {Spellings(w) : w \in SeverityNames[v]}

\* C40: the level conversion gives every string one value among UNKNOWN(0),
\* DEBUG(1), INFO(2), WARNING(3), ERROR(4), FATAL(5), and each of the six is
\* the value of some string; the upper-case, lower-case and capitalised
\* spellings of a level, for the warning level of both WARN and WARNING,
\* give that level, and every other string gives UNKNOWN.
C40_LevelConversion ==
    /\ \A v \in 0..5 : \E level \in LevelInputs : stringToFoxgloveLevel(level) = v
    /\ \A t \in Threads :
          pc[t] = "converted" =>
             LET level == frame[t].level
                 out == frame[t].rv
             IN /\ out \in 0..5
                /\ \A v \in 1..5 : level \in SpellingsOf(v) => out = v
                /\ (\A v \in 1..5 : level \notin SpellingsOf(v)) =>
                      out = LogLevelUnknown

\* the capitalised short spelling "Warn" has been converted to WARNING
C40_Witness ==
    \E t \in Threads :
        /\ pc[t] = "converted"
        /\ frame[t].level = <<"W", "a", "r", "n">>
        /\ frame[t].rv = LogLevelWarning

====
